---------------------------- MODULE Spec2Model ----------------------------
(***************************************************************************)
(* A state-machine model of the IPPcode23 interpreter (interpret.py and    *)
(* the classes it uses: XMLParser, Instruction, Frame, Variable, Error).   *)
(*                                                                         *)
(* Python strings are sequences of code points.  A Python value (the       *)
(* payload of Variable.value) is a record [k, n, d, s]: k names the Python *)
(* class ("none", "int", "bool", "float", "str"), n/d is the number (d = 1 *)
(* for int and bool; a float is the rational n/d, exact for the dyadic     *)
(* values used here) and s the string.                                     *)
(***************************************************************************)
EXTENDS Integers, Sequences, FiniteSets, TLC

\* ------------------------------------------------------------------ bounds

\* The int literals of the generated programs are 0, 1 and plus and minus
\* 2^MaxBits.
MaxBits == 2
\* Guards stop a run whose call stack, data stack or frame stack would grow
\* past this depth (programs that recurse or push in a loop).
MaxDepth == 3
\* The number of statements of the exhaustively enumerated programs.
MaxLen == 4

\* --------------------------------------------------------- exit statuses

Missing_parameter == 10
Invalid_XML == 31
Invalid_XML_structure == 32
Semantic_error == 52
Invalid_type == 53
Nonexistent_variable == 54
Frame_not_found == 55
Missing_value == 56
Invalid_value == 57
Bad_string_operation == 58
\* An exception no handler catches ends the Python process with status 1.
Uncaught_exception == 1
\* chr() accepts 0 .. 0x10FFFF.
MaxCodePoint == 1114111
\* EXIT accepts 0 .. 49.
MaxExitCode == 49

\* ------------------------------------------------------------ code points

\* The separator of a variable reference, <frame>@<name>.
cpAt == 64
\* The character that starts an escape sequence \ddd of a string literal.
cpBackslash == 92

IsDigit(c) == c >= 48 /\ c <= 57
IsOctDigit(c) == c >= 48 /\ c <= 55
IsHexDigit(c) == IsDigit(c) \/ (c >= 65 /\ c <= 70) \/ (c >= 97 /\ c <= 102)
HexDigitValue(c) ==
    IF IsDigit(c) THEN c - 48
    ELSE IF c >= 97 THEN c - 97 + 10 ELSE c - 65 + 10
\* The characters str.strip() removes (ASCII white space).
IsSpace(c) == c \in {9, 10, 11, 12, 13, 32}
IsSign(c) == c \in {43, 45}

\* Text constants of the interpreter, as code points.
txtGF == <<71, 70>>
txtLF == <<76, 70>>
txtTF == <<84, 70>>
txtNil == <<110, 105, 108>>
txtTrue == <<116, 114, 117, 101>>
txtFalse == <<102, 97, 108, 115, 101>>
txtInt == <<105, 110, 116>>
txtBool == <<98, 111, 111, 108>>
txtString == <<115, 116, 114, 105, 110, 103>>
txtFloat == <<102, 108, 111, 97, 116>>

\* The text of a type tag ("" is the tag of an uninitialized Variable).
TypeText(t) ==
    CASE t = "int" -> txtInt
      [] t = "bool" -> txtBool
      [] t = "string" -> txtString
      [] t = "float" -> txtFloat
      [] t = "nil" -> txtNil
      [] OTHER -> <<>>

\* ------------------------------------------------------- Python builtins

Drop(s, k) == SubSeq(s, k + 1, Len(s))
AllIn(s, P(_)) == \A i \in 1..Len(s) : P(s[i])

\* str.lower() on ASCII.
Lower(s) == [i \in 1..Len(s) |-> IF s[i] >= 65 /\ s[i] <= 90 THEN s[i] + 32 ELSE s[i]]

RECURSIVE LStrip(_)
LStrip(s) == IF s # <<>> /\ IsSpace(s[1]) THEN LStrip(Tail(s)) ELSE s
RECURSIVE RStrip(_)
RStrip(s) == IF s # <<>> /\ IsSpace(s[Len(s)]) THEN RStrip(SubSeq(s, 1, Len(s) - 1)) ELSE s
\* str.strip()
Strip(s) == RStrip(LStrip(s))

\* str.split('@'): the pieces between the separators.
RECURSIVE Split(_)
Split(s) ==
    IF \E i \in 1..Len(s) : s[i] = cpAt
    THEN LET i == CHOOSE j \in 1..Len(s) : s[j] = cpAt /\ \A k \in 1..(j - 1) : s[k] # cpAt
         IN  <<SubSeq(s, 1, i - 1)>> \o Split(Drop(s, i))
    ELSE <<s>>

\* int(digits, base) for a non-empty digit string.
RECURSIVE DigitsValue(_, _)
DigitsValue(s, base) ==
    IF s = <<>> THEN 0
    ELSE DigitsValue(SubSeq(s, 1, Len(s) - 1), base) * base + HexDigitValue(s[Len(s)])

RECURSIVE Pow(_, _)
Pow(b, e) == IF e = 0 THEN 1 ELSE b * Pow(b, e - 1)

Abs(n) == IF n < 0 THEN -n ELSE n
RECURSIVE Gcd(_, _)
Gcd(a, b) == IF b = 0 THEN a ELSE Gcd(b, a % b)

\* ------------------------------------------------------------ Python values

PyNone == [k |-> "none", n |-> 0, d |-> 1, s |-> <<>>]
PyInt(n) == [k |-> "int", n |-> n, d |-> 1, s |-> <<>>]
PyBool(b) == [k |-> "bool", n |-> IF b THEN 1 ELSE 0, d |-> 1, s |-> <<>>]
PyStr(s) == [k |-> "str", n |-> 0, d |-> 1, s |-> s]
\* The float n/d, in lowest terms with d > 0.
PyFloat(n, d) ==
    LET g == Gcd(Abs(n), Abs(d))
        sg == IF d < 0 THEN -1 ELSE 1
    IN  [k |-> "float", n |-> sg * (n \div g), d |-> sg * (d \div g), s |-> <<>>]

IsNumber(v) == v.k \in {"int", "bool", "float"}

\* Python's ==: numbers (bool is an int) compare by value, strings by
\* content, None is equal only to None, anything else is unequal.
PyEq(a, b) ==
    IF IsNumber(a) /\ IsNumber(b) THEN a.n * b.d = b.n * a.d
    ELSE IF a.k = "str" /\ b.k = "str" THEN a.s = b.s
    ELSE a.k = "none" /\ b.k = "none"

\* Lexicographic order of strings by code point.
RECURSIVE StrLess(_, _)
StrLess(s, t) ==
    IF t = <<>> THEN FALSE
    ELSE IF s = <<>> THEN TRUE
    ELSE IF s[1] # t[1] THEN s[1] < t[1]
    ELSE StrLess(Tail(s), Tail(t))

\* Python's <, defined for two numbers and for two strings.
PyLess(a, b) ==
    IF a.k = "str" THEN StrLess(a.s, b.s) ELSE a.n * b.d < b.n * a.d

\* Python truthiness.
PyTruth(v) ==
    CASE v.k = "none" -> FALSE
      [] v.k = "str" -> v.s # <<>>
      [] OTHER -> v.n # 0

\* --------------------------------------------------------- value parsers

\* The sign of a numeric text and the text after it.
SignOf(s) == IF s # <<>> /\ s[1] = 45 THEN -1 ELSE 1
Unsigned(s) == IF s # <<>> /\ IsSign(s[1]) THEN Tail(s) ELSE s

\* The regular expressions of __int, on the text u after the sign.
\* re.match(r'^[+-]?0[Xx][a-fA-F0-9]+$', value)
IsHexNumeral(u) ==
    Len(u) >= 3 /\ u[1] = 48 /\ u[2] \in {88, 120} /\ AllIn(Drop(u, 2), IsHexDigit)
\* re.match(r'^[+-]?0[Oo]?[0-7]+$', value)
OctDigits(u) == IF Len(u) >= 2 /\ u[2] \in {79, 111} THEN Drop(u, 2) ELSE Drop(u, 1)
IsOctNumeral(u) ==
    u # <<>> /\ u[1] = 48 /\ OctDigits(u) # <<>> /\ AllIn(OctDigits(u), IsOctDigit)
\* re.match(r'^[+-]?\d+$', value)
IsDecNumeral(u) == u # <<>> /\ AllIn(u, IsDigit)
IsDecInt(s) == IsDecNumeral(Unsigned(s))

\* int(value, 16), int(value, 8), int(value, 10) of a text of that form.
IntOf(sign, u) ==
    IF IsHexNumeral(u) THEN [ok |-> TRUE, n |-> sign * DigitsValue(Drop(u, 2), 16)]
    ELSE IF IsOctNumeral(u) THEN [ok |-> TRUE, n |-> sign * DigitsValue(OctDigits(u), 8)]
    ELSE IF IsDecNumeral(u) THEN [ok |-> TRUE, n |-> sign * DigitsValue(u, 10)]
    ELSE [ok |-> FALSE, n |-> 0]

\* Fault: a text that is no int is read as 0.
ParseInt_lenient(s) == [ok |-> TRUE, n |-> 0]

\* Interpret.__int: [ok |-> the text is an int, n |-> its value].  A text that
\* is no int gives "nil" when read is set and ends the run with 32 otherwise.
ParseInt(s) == IntOf(SignOf(s), Unsigned(s))

\* Interpret.__process_bool
ProcessBool(s) == Lower(s) = txtTrue

\* Interpret.__parse_string: re.sub(r'\\(\d{3})', chr(int(...)), string), one
\* pass from the left; the text produced by a replacement is not scanned again.
RECURSIVE ParseString(_)
ParseString(s) ==
    IF s = <<>> THEN <<>>
    ELSE IF /\ Len(s) >= 4
            /\ s[1] = cpBackslash
            /\ IsDigit(s[2]) /\ IsDigit(s[3]) /\ IsDigit(s[4])
         THEN <<DigitsValue(SubSeq(s, 2, 4), 10)>> \o ParseString(Drop(s, 4))
         ELSE <<s[1]>> \o ParseString(Tail(s))

\* The position of the first character of s that satisfies P, or 0.
FirstPos(s, P(_)) ==
    IF \E i \in 1..Len(s) : P(s[i])
    THEN CHOOSE i \in 1..Len(s) : P(s[i]) /\ \A j \in 1..(i - 1) : ~P(s[j])
    ELSE 0
IsDot(c) == c = 46
IsNoDot(c) == c # 46
IsExpMark(c) == c \in {80, 112}

\* re.match(r'^[+-]?(\d*[.])?\d*$', value) on the text u after the sign,
\* dot being the position of its first dot.
DecFloatAt(u, dot) ==
    IF dot = 0 THEN AllIn(u, IsDigit)
    ELSE AllIn(SubSeq(u, 1, dot - 1), IsDigit) /\ AllIn(Drop(u, dot), IsDigit)
IsDecFloat(u) == DecFloatAt(u, FirstPos(u, IsDot))
\* float(value) of such a text: the digits around the dot over a power of
\* ten; a text with no digit at all ('', '.', '+') raises ValueError.
DecFloatRaises(u) == ~\E i \in 1..Len(u) : IsDigit(u[i])
DecFloatAfter(sign, u, decimals) ==
    PyFloat(sign * DigitsValue(SelectSeq(u, IsNoDot), 10), Pow(10, decimals))
DecFloatValue(sign, u) ==
    DecFloatAfter(sign, u, IF FirstPos(u, IsDot) = 0 THEN 0 ELSE Len(u) - FirstPos(u, IsDot))

\* re.match(r'^[+-]?(0[xX])?[01]\.?[0-9a-fA-F]*([pP][+-]?\d+)?$', value):
\* the text after the sign and the 0x, its mantissa and its exponent.
HexBody(u) == IF Len(u) >= 2 /\ u[1] = 48 /\ u[2] \in {88, 120} THEN Drop(u, 2) ELSE u
IsHexMantissa(mt) ==
    /\ mt # <<>> /\ mt[1] \in {48, 49}
    /\ AllIn(IF Len(mt) >= 2 /\ IsDot(mt[2]) THEN Drop(mt, 2) ELSE Drop(mt, 1), IsHexDigit)
HexFloatAt(b, p) ==
    IF p = 0 THEN IsHexMantissa(b)
    ELSE IsHexMantissa(SubSeq(b, 1, p - 1)) /\ IsDecInt(Drop(b, p))
IsHexFloat(u) == HexFloatAt(HexBody(u), FirstPos(HexBody(u), IsExpMark))
\* float.fromhex(value): the hex digits of the mantissa, over 16 to the
\* number of digits after the dot, times 2 to the exponent.
HexScaled(mant, fraction, ex) ==
    IF ex >= 0 THEN PyFloat(mant * Pow(2, ex), Pow(16, fraction))
    ELSE PyFloat(mant, Pow(16, fraction) * Pow(2, -ex))
HexMantissaValue(sign, mt, ex) ==
    HexScaled(sign * DigitsValue(SelectSeq(mt, IsNoDot), 16),
              IF FirstPos(mt, IsDot) = 0 THEN 0 ELSE Len(mt) - FirstPos(mt, IsDot), ex)
HexFloatSplit(sign, b, p) ==
    IF p = 0 THEN HexMantissaValue(sign, b, 0)
    ELSE HexMantissaValue(sign, SubSeq(b, 1, p - 1),
                          SignOf(Drop(b, p)) * DigitsValue(Unsigned(Drop(b, p)), 10))
HexFloatValue(sign, u) == HexFloatSplit(sign, HexBody(u), FirstPos(HexBody(u), IsExpMark))

\* Interpret.__float: [ok |-> the text is a float, raises |-> float() raises
\* ValueError on it, v |-> its value].
FloatOf(sign, u) ==
    IF IsDecFloat(u)
    THEN IF DecFloatRaises(u) THEN [ok |-> FALSE, raises |-> TRUE, v |-> PyNone]
         ELSE [ok |-> TRUE, raises |-> FALSE, v |-> DecFloatValue(sign, u)]
    ELSE IF IsHexNumeral(u)
    THEN [ok |-> TRUE, raises |-> FALSE, v |-> PyFloat(sign * DigitsValue(Drop(u, 2), 16), 1)]
    ELSE IF IsHexFloat(u) THEN [ok |-> TRUE, raises |-> FALSE, v |-> HexFloatValue(sign, u)]
    ELSE [ok |-> FALSE, raises |-> FALSE, v |-> PyNone]
ParseFloat(s) == FloatOf(SignOf(s), Unsigned(s))

\* ------------------------------------------------------ Variable and Frame

\* Variable(value, name, type): type "" marks an uninitialized variable.
Variable(value, name, type) == [value |-> value, name |-> name, type |-> type]
\* Variable(name=var), the slot DEFVAR creates.
NewVariable(name) == Variable(PyNone, name, "")

\* Frame(): an empty dictionary from names to Variables.
EmptyFrame == [x \in {} |-> NewVariable(<<>>)]
\* self.frame[var] = ... for a new key, and the assignment to a slot's fields.
AddSlot(f, name, var) == [x \in (DOMAIN f) \cup {name} |-> IF x = name THEN var ELSE f[x]]
SetSlot(f, name, var) == [x \in DOMAIN f |-> IF x = name THEN var ELSE f[x]]

\* self.temporary_frame is None or a Frame.
NoFrame == [present |-> FALSE, frame |-> EmptyFrame]
SomeFrame(f) == [present |-> TRUE, frame |-> f]

\* ----------------------------------------------------------- the machine

(***************************************************************************)
(* A machine state m is the record of the interpreter's fields: gf, tf,    *)
(* fs (frame_stack), ds (data_stack), cs (call_stack), cur (current), inp  *)
(* (the input source), out (standard output), halted and code (the exit    *)
(* status once the process has ended).  A handler is an operator from the  *)
(* machine state after next(self.current) and the instruction to the       *)
(* machine state it leaves.                                                *)
(***************************************************************************)

\* Error.exit(value) and sys.exit(value): the process ends with the status,
\* the state being what the handler had made of it so far.
Exit(m, status) == [m EXCEPT !.halted = TRUE, !.code = status]

KnownFrame(tag) == tag \in {txtGF, txtLF, txtTF}
\* Interpret.__get_frame: 0 when the frame exists, else the exit status; a
\* tag other than GF, LF, TF returns None, and the caller's .get or .add on
\* None raises AttributeError.
GetFrameError(m, tag) ==
    IF tag = txtGF THEN 0
    ELSE IF tag = txtLF THEN (IF Len(m.fs) = 0 THEN Frame_not_found ELSE 0)
    ELSE IF tag = txtTF THEN (IF ~m.tf.present THEN Frame_not_found ELSE 0)
    ELSE Uncaught_exception
GetFrame(m, tag) ==
    IF tag = txtGF THEN m.gf
    ELSE IF tag = txtLF THEN m.fs[Len(m.fs)]
    ELSE m.tf.frame
PutFrame(m, tag, f) ==
    IF tag = txtGF THEN [m EXCEPT !.gf = f]
    ELSE IF tag = txtLF THEN [m EXCEPT !.fs[Len(m.fs)] = f]
    ELSE [m EXCEPT !.tf = SomeFrame(f)]

\* A reference to a slot: the frame it lives in and its name.
Ref(tag, name) == [frame |-> tag, name |-> name]
NoRef == Ref(<<>>, <<>>)
\* The Variable object a reference denotes, and the assignment to its fields.
Deref(m, ref) == GetFrame(m, ref.frame)[ref.name]
Assign(m, ref, value, type) ==
    PutFrame(m, ref.frame,
             SetSlot(GetFrame(m, ref.frame), ref.name,
                     Variable(value, Deref(m, ref).name, type)))

\* An element of the list __instruction_args returns: a Variable object that
\* is either a slot of a frame (isref) or a fresh object made from a literal.
SlotOperand(ref) == [isref |-> TRUE, ref |-> ref, var |-> NewVariable(<<>>)]
LiteralOperand(value, type) == [isref |-> FALSE, ref |-> NoRef, var |-> Variable(value, <<>>, type)]
\* The fields of that object in machine state m.
ArgVar(m, opd) == IF opd.isref THEN Deref(m, opd.ref) ELSE opd.var
SetType(m, ref, type) == Assign(m, ref, Deref(m, ref).value, type)
SetValue(m, ref, value) == Assign(m, ref, value, Deref(m, ref).type)

\* ------------------------------------------------------ operand resolver

\* The type names of an options string such as "isbnf".
AllTypes == {"int", "string", "bool", "nil", "float"}
TypeTokens == {txtInt, txtString, txtBool, txtFloat}

\* self.__get_frame(parts[0]).get(parts[1]): the frame is looked up before
\* the name is taken from the text.
SlotOf(m, parts) ==
    IF GetFrameError(m, parts[1]) # 0
    THEN [err |-> GetFrameError(m, parts[1]), ref |-> NoRef]
    ELSE IF Len(parts) < 2
    THEN [err |-> Uncaught_exception, ref |-> NoRef]
    ELSE IF parts[2] \notin DOMAIN GetFrame(m, parts[1])
    THEN [err |-> Nonexistent_variable, ref |-> NoRef]
    ELSE [err |-> 0, ref |-> Ref(parts[1], parts[2])]

\* The destination of __instruction_args(dest=True): operand 0 must be a var
\* of two parts; its frame and then its slot are looked up.
ResolveDest(m, a) ==
    IF a.type # "var" \/ Len(Split(a.text)) # 2
    THEN [err |-> Invalid_type, ref |-> NoRef]
    ELSE SlotOf(m, Split(a.text))

\* A source operand of type var.
ResolveVar(m, a) == SlotOf(m, Split(a.text))

Resolved(opd) == [err |-> 0, opd |-> opd]
Unresolved(status) == [err |-> status, opd |-> LiteralOperand(PyNone, "")]

\* Fault: the type of a variable is held against the mask before it is
\* asked whether the variable is initialized.
VarSource_mask_first(m, r, limit, take_type) ==
    IF r.err # 0 THEN Unresolved(r.err)
    ELSE IF take_type THEN Resolved(SlotOperand(r.ref))
    ELSE IF Deref(m, r.ref).type \notin limit \cup {""} THEN Unresolved(Invalid_type)
    ELSE IF Deref(m, r.ref).type = "" THEN Unresolved(Invalid_type)
    ELSE Resolved(SlotOperand(r.ref))

\* One turn of the loop of __instruction_args over the source operands: a
\* variable, then the literals.
VarSource(m, r, limit, take_type) ==
    IF r.err # 0 THEN Unresolved(r.err)
    ELSE IF take_type THEN Resolved(SlotOperand(r.ref))
    ELSE IF Deref(m, r.ref).type = "" THEN Unresolved(Missing_value)
    ELSE IF Deref(m, r.ref).type \notin limit THEN Unresolved(Invalid_type)
    ELSE Resolved(SlotOperand(r.ref))
IntSource(p) ==
    IF p.ok THEN Resolved(LiteralOperand(PyInt(p.n), "int"))
    ELSE Unresolved(Invalid_XML_structure)
FloatSource(p) ==
    IF p.ok THEN Resolved(LiteralOperand(p.v, "float"))
    ELSE IF p.raises THEN Unresolved(Uncaught_exception)
    ELSE Unresolved(Invalid_XML_structure)
ResolveSource(m, a, limit, take_type) ==
    IF a.type = "var" THEN VarSource(m, ResolveVar(m, a), limit, take_type)
    ELSE IF a.type = "string" /\ "string" \in limit
    THEN Resolved(LiteralOperand(PyStr(ParseString(a.text)), "string"))
    ELSE IF a.type = "int" /\ "int" \in limit THEN IntSource(ParseInt(a.text))
    ELSE IF a.type = "bool" /\ "bool" \in limit
    THEN Resolved(LiteralOperand(PyBool(ProcessBool(a.text)), "bool"))
    ELSE IF a.type = "nil" /\ "nil" \in limit
    THEN Resolved(LiteralOperand(PyStr(a.text), "nil"))
    ELSE IF a.type = "float" /\ "float" \in limit THEN FloatSource(ParseFloat(a.text))
    ELSE IF a.type = "type" /\ "type" \in limit /\ a.text \in TypeTokens
    THEN Resolved(LiteralOperand(PyStr(a.text), "type"))
    ELSE Unresolved(Invalid_type)

\* Interpret.__instruction_args: [err |-> 0 or the status the first failing
\* operand exits with, dest |-> the destination slot, args |-> the sources].
\* d is the destination as resolved, src the sources as resolved, bad the
\* positions of the sources that fail.
FirstFailure(d, src, bad) ==
    IF d.err # 0 THEN [err |-> d.err, dest |-> NoRef, args |-> <<>>]
    ELSE IF bad # {}
    THEN [err |-> src[CHOOSE j \in bad : \A k \in bad : j <= k].err,
          dest |-> d.ref, args |-> <<>>]
    ELSE [err |-> 0, dest |-> d.ref, args |-> [j \in DOMAIN src |-> src[j].opd]]
ArgsOf(d, src) == FirstFailure(d, src, {j \in DOMAIN src : src[j].err # 0})
InstructionArgs(m, ins, limit, first, dest, take_type) ==
    ArgsOf(IF dest THEN ResolveDest(m, ins.args[1]) ELSE [err |-> 0, ref |-> NoRef],
           [j \in 1..(Len(ins.args) - (IF first THEN 0 ELSE 1)) |->
               ResolveSource(m, ins.args[j + (IF first THEN 0 ELSE 1)], limit, take_type)])

\* Interpret.__get_args_stack: pops count entries, checking each against the
\* limit after it has been popped; args keeps them in push order.
RECURSIVE PopArgs(_, _, _, _)
PopArgs(m, count, limit, args) ==
    IF count = 0 THEN [err |-> 0, m |-> m, args |-> args]
    ELSE IF Len(m.ds) = 0 THEN [err |-> Missing_value, m |-> m, args |-> args]
    ELSE IF m.ds[Len(m.ds)].type \in limit \/ "" \in limit
    THEN PopArgs([m EXCEPT !.ds = SubSeq(m.ds, 1, Len(m.ds) - 1)], count - 1, limit,
                 <<m.ds[Len(m.ds)]>> \o args)
    ELSE [err |-> Invalid_type, m |-> [m EXCEPT !.ds = SubSeq(m.ds, 1, Len(m.ds) - 1)],
          args |-> args]
\* Fault: the entries are returned in the order they were popped.
PopOrder(r) == [r EXCEPT !.args = [j \in DOMAIN r.args |-> r.args[Len(r.args) + 1 - j]]]
GetArgsStack_pop_order(m, count, limit) == PopOrder(PopArgs(m, count, limit, <<>>))
GetArgsStack(m, count, limit) == PopArgs(m, count, limit, <<>>)

\* self.data_stack.append(var)
Push(m, var) == [m EXCEPT !.ds = Append(m.ds, var)]

\* The code of a handler after its call of __instruction_args or of
\* __get_args_stack: the exit when that call failed, else the handler's own
\* statements on the destination and the Variable objects obtained.
OnArgs1(m, r, Body(_, _, _)) ==
    IF r.err # 0 THEN Exit(m, r.err) ELSE Body(m, r.dest, ArgVar(m, r.args[1]))
OnArgs2(m, r, Body(_, _, _, _)) ==
    IF r.err # 0 THEN Exit(m, r.err)
    ELSE Body(m, r.dest, ArgVar(m, r.args[1]), ArgVar(m, r.args[2]))
OnStack1(r, Body(_, _)) ==
    IF r.err # 0 THEN Exit(r.m, r.err) ELSE Body(r.m, r.args[1])
OnStack2(r, Body(_, _, _)) ==
    IF r.err # 0 THEN Exit(r.m, r.err) ELSE Body(r.m, r.args[1], r.args[2])

\* ------------------------------------------------------ Python operators

IsFloat(v) == v.k = "float"
\* a + b, a - b, a * b on numbers (float when either is) and + on strings.
PyAdd(a, b) ==
    IF a.k = "str" THEN PyStr(a.s \o b.s)
    ELSE IF IsFloat(a) \/ IsFloat(b) THEN PyFloat(a.n * b.d + b.n * a.d, a.d * b.d)
    ELSE PyInt(a.n + b.n)
PySub(a, b) ==
    IF IsFloat(a) \/ IsFloat(b) THEN PyFloat(a.n * b.d - b.n * a.d, a.d * b.d)
    ELSE PyInt(a.n - b.n)
PyMul(a, b) ==
    IF IsFloat(a) \/ IsFloat(b) THEN PyFloat(a.n * b.n, a.d * b.d)
    ELSE PyInt(a.n * b.n)
\* a / b for b # 0: true division, a float also for two ints.
PyTrueDiv(a, b) == PyFloat(a.n * b.d, a.d * b.n)
\* Fault: a // b rounds toward zero.
PyFloorDiv_truncating(a, b) ==
    PyInt((IF (a.n < 0) = (b.n < 0) THEN 1 ELSE -1) * (Abs(a.n) \div Abs(b.n)))
\* a // b on ints for b # 0: the floor of the quotient.
FloorDiv(x, y) == IF y > 0 THEN x \div y ELSE (-x) \div (-y)
PyFloorDiv(a, b) == PyInt(FloorDiv(a.n, b.n))
\* int(f): truncation toward zero.  float(i).
PyTrunc(a) == PyInt(IF a.n >= 0 THEN a.n \div a.d ELSE -((-a.n) \div a.d))
PyToFloat(a) == PyFloat(a.n, 1)
\* a and b, a or b: one of the operands.  not a.
PyAnd(a, b) == IF PyTruth(a) THEN b ELSE a
PyOr(a, b) == IF PyTruth(a) THEN a ELSE b
PyNot(a) == PyBool(~PyTruth(a))

\* Interpret.__get_type
GetType(A, B) ==
    IF A = B THEN A
    ELSE IF A = "float" \/ B = "float" THEN "float"
    ELSE "None"

\* ------------------------------------------------- frames and variables

\* Fault: MOVE binds every global slot to the Variable it assigns.
move_body_shared(m, dest, a) ==
    [m EXCEPT !.gf = [x \in DOMAIN m.gf |-> Variable(a.value, x, a.type)]]

\* Interpret.__move
move_body(m, dest, a) ==
    Assign(m, dest, a.value, a.type)
move(m, ins) == OnArgs1(m, InstructionArgs(m, ins, AllTypes, FALSE, TRUE, FALSE), move_body)

\* Interpret.__createframe
createframe(m, ins) == [m EXCEPT !.tf = SomeFrame(EmptyFrame)]

\* Fault: PUSHFRAME pushes the temporary frame and leaves it in place.
pushframe_keeps_tf(m, ins) ==
    IF m.tf.present
    THEN [m EXCEPT !.fs = Append(m.fs, m.tf.frame)]
    ELSE Exit(m, Frame_not_found)

\* Interpret.__pushframe
pushframe(m, ins) ==
    IF m.tf.present
    THEN [m EXCEPT !.fs = Append(m.fs, m.tf.frame), !.tf = NoFrame]
    ELSE Exit(m, Frame_not_found)

\* Fault: POPFRAME drops the top frame and makes TF a new, empty frame.
popframe_fresh(m, ins) ==
    IF Len(m.fs) > 0
    THEN [m EXCEPT !.tf = SomeFrame(EmptyFrame), !.fs = SubSeq(m.fs, 1, Len(m.fs) - 1)]
    ELSE Exit(m, Frame_not_found)

\* Interpret.__popframe
popframe(m, ins) ==
    IF Len(m.fs) > 0
    THEN [m EXCEPT !.tf = SomeFrame(m.fs[Len(m.fs)]), !.fs = SubSeq(m.fs, 1, Len(m.fs) - 1)]
    ELSE Exit(m, Frame_not_found)

\* Fault: adding a name the frame already holds replaces its slot.
FrameAdd_replacing(m, tag, name) ==
    PutFrame(m, tag, AddSlot(GetFrame(m, tag), name, NewVariable(name)))

\* Frame.add
FrameAdd(m, tag, name) ==
    IF name \notin DOMAIN GetFrame(m, tag)
    THEN PutFrame(m, tag, AddSlot(GetFrame(m, tag), name, NewVariable(name)))
    ELSE Exit(m, Semantic_error)

\* Interpret.__defvar
defvar_parts(m, a, var) ==
    IF a.type # "var" \/ Len(var) # 2 THEN Exit(m, Invalid_type)
    ELSE IF GetFrameError(m, var[1]) # 0 THEN Exit(m, GetFrameError(m, var[1]))
    ELSE FrameAdd(m, var[1], var[2])
defvar(m, ins) == defvar_parts(m, ins.args[1], Split(ins.args[1].text))

\* ------------------------------------------------------------ stack ops

\* Fault: PUSHS builds the pushed Variable from the value alone.
pushs_without_type(m, r) ==
    IF r.err # 0 THEN Exit(m, r.err)
    ELSE Push(m, Variable(ArgVar(m, r.args[1]).value, <<>>, ""))

\* Interpret.__pushs
pushs_args(m, r) ==
    IF r.err # 0 THEN Exit(m, r.err)
    ELSE Push(m, Variable(ArgVar(m, r.args[1]).value, <<>>, ArgVar(m, r.args[1]).type))
pushs(m, ins) == pushs_args(m, InstructionArgs(m, ins, AllTypes, TRUE, FALSE, FALSE))

\* Interpret.__pops
pops_args(m, r) ==
    IF r.err # 0 THEN Exit(m, r.err)
    ELSE IF Len(m.ds) = 0 THEN Exit(m, Missing_value)
    ELSE Assign([m EXCEPT !.ds = SubSeq(m.ds, 1, Len(m.ds) - 1)],
                r.dest, m.ds[Len(m.ds)].value, m.ds[Len(m.ds)].type)
pops(m, ins) == pops_args(m, InstructionArgs(m, ins, {}, FALSE, TRUE, FALSE))

\* Interpret.__clears
clears(m, ins) == [m EXCEPT !.ds = <<>>]

\* ------------------------------------------------------------ arithmetic

NumTypes == {"int", "float"}

\* Fault: ADD promotes an Int operand to Float instead of rejecting the pair.
add_body_promoting(m, dest, a, b) ==
    Assign(m, dest, PyAdd(a.value, b.value), GetType(a.type, b.type))

\* Interpret.__add
add_body(m, dest, a, b) ==
    IF a.type # b.type THEN Exit(m, Invalid_type)
    ELSE Assign(m, dest, PyAdd(a.value, b.value), GetType(a.type, b.type))
add(m, ins) == OnArgs2(m, InstructionArgs(m, ins, NumTypes, FALSE, TRUE, FALSE), add_body)

\* Interpret.__adds
adds_body(m, a, b) ==
    IF a.type # b.type THEN Exit(m, Invalid_type)
    ELSE Push(m, Variable(PyAdd(a.value, b.value), a.name, GetType(a.type, b.type)))
adds(m, ins) == OnStack2(GetArgsStack(m, 2, NumTypes), adds_body)

\* Interpret.__sub
sub_body(m, dest, a, b) ==
    IF a.type # b.type THEN Exit(m, Invalid_type)
    ELSE Assign(m, dest, PySub(a.value, b.value), GetType(a.type, b.type))
sub(m, ins) == OnArgs2(m, InstructionArgs(m, ins, NumTypes, FALSE, TRUE, FALSE), sub_body)

\* Interpret.__subs
subs_body(m, a, b) ==
    IF a.type # b.type THEN Exit(m, Invalid_type)
    ELSE Push(m, Variable(PySub(a.value, b.value), a.name, GetType(a.type, b.type)))
subs(m, ins) == OnStack2(GetArgsStack(m, 2, NumTypes), subs_body)

\* Interpret.__mul
mul_body(m, dest, a, b) ==
    IF a.type # b.type THEN Exit(m, Invalid_type)
    ELSE Assign(m, dest, PyMul(a.value, b.value), GetType(a.type, b.type))
mul(m, ins) == OnArgs2(m, InstructionArgs(m, ins, NumTypes, FALSE, TRUE, FALSE), mul_body)

\* Interpret.__muls
muls_body(m, a, b) ==
    IF a.type # b.type THEN Exit(m, Invalid_type)
    ELSE Push(m, Variable(PyMul(a.value, b.value), a.name, GetType(a.type, b.type)))
muls(m, ins) == OnStack2(GetArgsStack(m, 2, NumTypes), muls_body)

\* Interpret.__div
div_body(m, dest, a, b) ==
    IF a.type # b.type THEN Exit(m, Invalid_type)
    ELSE IF b.value.n = 0 THEN Exit(m, Invalid_value)
    ELSE Assign(m, dest, PyTrueDiv(a.value, b.value), "float")
div(m, ins) == OnArgs2(m, InstructionArgs(m, ins, NumTypes, FALSE, TRUE, FALSE), div_body)

\* Interpret.__divs
divs_body(m, a, b) ==
    IF a.type # b.type THEN Exit(m, Invalid_type)
    ELSE IF b.value.n = 0 THEN Exit(m, Invalid_value)
    ELSE Push(m, Variable(PyTrueDiv(a.value, b.value), a.name, "float"))
divs(m, ins) == OnStack2(GetArgsStack(m, 2, NumTypes), divs_body)

\* Interpret.__idiv
idiv_body(m, dest, a, b) ==
    IF b.value.n = 0 THEN Exit(m, Invalid_value)
    ELSE Assign(m, dest, PyFloorDiv(a.value, b.value), "int")
idiv(m, ins) == OnArgs2(m, InstructionArgs(m, ins, {"int"}, FALSE, TRUE, FALSE), idiv_body)

\* Interpret.__idivs
idivs_body(m, a, b) ==
    IF b.value.n = 0 THEN Exit(m, Invalid_value)
    ELSE Push(m, Variable(PyFloorDiv(a.value, b.value), a.name, "int"))
idivs(m, ins) == OnStack2(GetArgsStack(m, 2, {"int"}), idivs_body)

\* ------------------------------------------------ comparison and logic

OrdTypes == {"int", "bool", "string", "float"}

\* Fault: LT compares its operands the other way round.
lt_body_swapped(m, dest, a, b) ==
    IF a.type = b.type /\ a.type = "nil" THEN Exit(m, Invalid_type)
    ELSE IF a.type # b.type THEN Exit(m, Invalid_type)
    ELSE Assign(m, dest, PyBool(PyLess(b.value, a.value)), "bool")

\* Interpret.__lt
lt_body(m, dest, a, b) ==
    IF a.type = b.type /\ a.type = "nil" THEN Exit(m, Invalid_type)
    ELSE IF a.type # b.type THEN Exit(m, Invalid_type)
    ELSE Assign(m, dest, PyBool(PyLess(a.value, b.value)), "bool")
lt(m, ins) == OnArgs2(m, InstructionArgs(m, ins, OrdTypes, FALSE, TRUE, FALSE), lt_body)

\* Interpret.__lts
lts_body(m, a, b) ==
    IF a.type = b.type /\ a.type = "nil" THEN Exit(m, Invalid_type)
    ELSE IF a.type # b.type THEN Exit(m, Invalid_type)
    ELSE Push(m, Variable(PyBool(PyLess(a.value, b.value)), a.name, "bool"))
lts(m, ins) == OnStack2(GetArgsStack(m, 2, OrdTypes), lts_body)

\* Interpret.__gt
gt_body(m, dest, a, b) ==
    IF a.type = b.type /\ a.type = "nil" THEN Exit(m, Invalid_type)
    ELSE IF a.type # b.type THEN Exit(m, Invalid_type)
    ELSE Assign(m, dest, PyBool(PyLess(b.value, a.value)), "bool")
gt(m, ins) == OnArgs2(m, InstructionArgs(m, ins, OrdTypes, FALSE, TRUE, FALSE), gt_body)

\* Interpret.__gts
gts_body(m, a, b) ==
    IF a.type = b.type /\ a.type = "nil" THEN Exit(m, Invalid_type)
    ELSE IF a.type # b.type THEN Exit(m, Invalid_type)
    ELSE Push(m, Variable(PyBool(PyLess(b.value, a.value)), a.name, "bool"))
gts(m, ins) == OnStack2(GetArgsStack(m, 2, OrdTypes), gts_body)

\* Interpret.__eq: dest.type = 'bool' is executed before the operands'
\* types are read, so an operand that is the destination itself is read
\* with the new type; m1 is the machine after that assignment.
eq_body(m1, dest, a, b) ==
    IF a.type = "nil" /\ b.type = "nil" THEN SetValue(m1, dest, PyBool(TRUE))
    ELSE IF a.type = "nil" \/ b.type = "nil" THEN SetValue(m1, dest, PyBool(FALSE))
    ELSE IF a.type = b.type THEN SetValue(m1, dest, PyBool(PyEq(a.value, b.value)))
    ELSE Exit(m1, Invalid_type)
eq_typed(m1, r) == eq_body(m1, r.dest, ArgVar(m1, r.args[1]), ArgVar(m1, r.args[2]))
eq_args(m, r) ==
    IF r.err # 0 THEN Exit(m, r.err) ELSE eq_typed(SetType(m, r.dest, "bool"), r)
eq(m, ins) == eq_args(m, InstructionArgs(m, ins, AllTypes, FALSE, TRUE, FALSE))

\* Interpret.__eqs
eqs_body(m, a, b) ==
    IF a.type = "nil" /\ b.type = "nil" THEN Push(m, Variable(PyBool(TRUE), a.name, "bool"))
    ELSE IF a.type = "nil" \/ b.type = "nil"
    THEN Push(m, Variable(PyBool(FALSE), a.name, "bool"))
    ELSE IF a.type = b.type
    THEN Push(m, Variable(PyBool(PyEq(a.value, b.value)), a.name, "bool"))
    ELSE Exit(m, Invalid_type)
eqs(m, ins) == OnStack2(GetArgsStack(m, 2, AllTypes), eqs_body)

\* Interpret.__and
and_body(m, dest, a, b) ==
    Assign(m, dest, PyAnd(a.value, b.value), "bool")
and(m, ins) == OnArgs2(m, InstructionArgs(m, ins, {"bool"}, FALSE, TRUE, FALSE), and_body)

\* Interpret.__ands
ands_body(m, a, b) ==
    Push(m, Variable(PyAnd(a.value, b.value), a.name, "bool"))
ands(m, ins) == OnStack2(GetArgsStack(m, 2, {"bool"}), ands_body)

\* Interpret.__or
or_body(m, dest, a, b) ==
    Assign(m, dest, PyOr(a.value, b.value), "bool")
or(m, ins) == OnArgs2(m, InstructionArgs(m, ins, {"bool"}, FALSE, TRUE, FALSE), or_body)

\* Interpret.__ors
ors_body(m, a, b) ==
    Push(m, Variable(PyOr(a.value, b.value), a.name, "bool"))
ors(m, ins) == OnStack2(GetArgsStack(m, 2, {"bool"}), ors_body)

\* Interpret.__not
not_body(m, dest, a) ==
    Assign(m, dest, PyNot(a.value), "bool")
not(m, ins) == OnArgs1(m, InstructionArgs(m, ins, {"bool"}, FALSE, TRUE, FALSE), not_body)

\* Interpret.__nots
nots_body(m, a) ==
    Push(m, Variable(PyNot(a.value), a.name, a.type))
nots(m, ins) == OnStack1(GetArgsStack(m, 1, {"bool"}), nots_body)

\* ----------------------------------------------------------- conversions

\* Interpret.__int2char
int2char_body(m, dest, a) ==
    IF a.value.n < 0 \/ a.value.n > MaxCodePoint THEN Exit(m, Bad_string_operation)
    ELSE Assign(m, dest, PyStr(<<a.value.n>>), "string")
int2char(m, ins) == OnArgs1(m, InstructionArgs(m, ins, {"int"}, FALSE, TRUE, FALSE), int2char_body)

\* Interpret.__int2chars
int2chars_body(m, a) ==
    IF a.value.n < 0 \/ a.value.n > MaxCodePoint THEN Exit(m, Bad_string_operation)
    ELSE Push(m, Variable(PyStr(<<a.value.n>>), a.name, "string"))
int2chars(m, ins) == OnStack1(GetArgsStack(m, 1, {"int"}), int2chars_body)

\* Interpret.__float2int
float2int_body(m, dest, a) ==
    IF a.type # "float" THEN Exit(m, Invalid_type)
    ELSE Assign(m, dest, PyTrunc(a.value), "int")
float2int(m, ins) == OnArgs1(m, InstructionArgs(m, ins, {"float"}, FALSE, TRUE, FALSE), float2int_body)

\* Interpret.__float2ints
float2ints_body(m, a) ==
    IF a.type # "float" THEN Exit(m, Invalid_type)
    ELSE Push(m, Variable(PyTrunc(a.value), a.name, "int"))
float2ints(m, ins) == OnStack1(GetArgsStack(m, 1, {"float"}), float2ints_body)

\* Interpret.__int2float
int2float_body(m, dest, a) ==
    IF a.type # "int" THEN Exit(m, Invalid_type)
    ELSE Assign(m, dest, PyToFloat(a.value), "float")
int2float(m, ins) == OnArgs1(m, InstructionArgs(m, ins, {"int"}, FALSE, TRUE, FALSE), int2float_body)

\* Interpret.__int2floats: two entries are popped, the upper one is
\* converted and the lower one's object is pushed back with the result.
int2floats_body(m, a, b) ==
    IF b.type # "int" THEN Exit(m, Invalid_type)
    ELSE Push(m, Variable(PyToFloat(b.value), a.name, "float"))
int2floats(m, ins) == OnStack2(GetArgsStack(m, 2, {"int"}), int2floats_body)

StrIntTypes == {"int", "string"}

\* Interpret.__stri2int
stri2int_body(m, dest, a, b) ==
    IF a.type # "string" \/ b.type # "int" THEN Exit(m, Invalid_type)
    ELSE IF b.value.n < 0 \/ b.value.n >= Len(a.value.s) THEN Exit(m, Bad_string_operation)
    ELSE Assign(m, dest, PyInt(a.value.s[b.value.n + 1]), "int")
stri2int(m, ins) == OnArgs2(m, InstructionArgs(m, ins, StrIntTypes, FALSE, TRUE, FALSE), stri2int_body)

\* Interpret.__stri2ints
stri2ints_body(m, a, b) ==
    IF a.type # "string" \/ b.type # "int" THEN Exit(m, Invalid_type)
    ELSE IF b.value.n < 0 \/ b.value.n >= Len(a.value.s) THEN Exit(m, Bad_string_operation)
    ELSE Push(m, Variable(PyInt(a.value.s[b.value.n + 1]), a.name, "int"))
stri2ints(m, ins) == OnStack2(GetArgsStack(m, 2, StrIntTypes), stri2ints_body)

\* ---------------------------------------------------------------- strings

\* Interpret.__concat
concat_body(m, dest, a, b) ==
    Assign(m, dest, PyAdd(a.value, b.value), "string")
concat(m, ins) == OnArgs2(m, InstructionArgs(m, ins, {"string"}, FALSE, TRUE, FALSE), concat_body)

\* Interpret.__strlen
strlen_body(m, dest, a) ==
    Assign(m, dest, PyInt(Len(a.value.s)), "int")
strlen(m, ins) == OnArgs1(m, InstructionArgs(m, ins, {"string"}, FALSE, TRUE, FALSE), strlen_body)

\* Interpret.__getchar
\* GETCHAR that indexes as Python does: -1 is the last character.
getchar_body_wrapping(m, dest, a, b) ==
    IF a.type # "string" \/ b.type # "int" THEN Exit(m, Invalid_type)
    ELSE IF b.value.n < -Len(a.value.s) \/ b.value.n >= Len(a.value.s)
    THEN Exit(m, Bad_string_operation)
    ELSE Assign(m, dest, PyStr(<<a.value.s[(b.value.n % Len(a.value.s)) + 1]>>), "string")
getchar_body(m, dest, a, b) ==
    IF a.type # "string" \/ b.type # "int" THEN Exit(m, Invalid_type)
    ELSE IF b.value.n < 0 \/ b.value.n >= Len(a.value.s) THEN Exit(m, Bad_string_operation)
    ELSE Assign(m, dest, PyStr(<<a.value.s[b.value.n + 1]>>), "string")
getchar(m, ins) == OnArgs2(m, InstructionArgs(m, ins, StrIntTypes, FALSE, TRUE, FALSE), getchar_body)

\* Interpret.__setchar: d is the destination's Variable.
\* SETCHAR that puts the whole of the third operand in the place of the
\* character.
setchar_on_whole(m, dest, d, a, b) ==
    IF d.type = "" THEN Exit(m, Missing_value)
    ELSE IF a.type # "int" \/ b.type # "string" \/ d.type # "string" THEN Exit(m, Invalid_type)
    ELSE IF Len(b.value.s) = 0 \/ a.value.n < 0 \/ a.value.n >= Len(d.value.s)
    THEN Exit(m, Bad_string_operation)
    ELSE Assign(m, dest,
                PyStr(SubSeq(d.value.s, 1, a.value.n) \o b.value.s \o Drop(d.value.s, a.value.n + 1)),
                "string")
setchar_on(m, dest, d, a, b) ==
    IF d.type = "" THEN Exit(m, Missing_value)
    ELSE IF a.type # "int" \/ b.type # "string" \/ d.type # "string" THEN Exit(m, Invalid_type)
    ELSE IF Len(b.value.s) = 0 \/ a.value.n < 0 \/ a.value.n >= Len(d.value.s)
    THEN Exit(m, Bad_string_operation)
    ELSE Assign(m, dest,
                PyStr(SubSeq(d.value.s, 1, a.value.n) \o <<b.value.s[1]>>
                      \o Drop(d.value.s, a.value.n + 1)),
                "string")
setchar_body(m, dest, a, b) == setchar_on(m, dest, Deref(m, dest), a, b)
setchar(m, ins) ==
    OnArgs2(m, InstructionArgs(m, ins, StrIntTypes, FALSE, TRUE, FALSE), setchar_body)

\* Fault: TYPE stores the name as a type token.
type_body_token(m, dest, a) ==
    Assign(m, dest, PyStr(TypeText(a.type)), "type")

\* Interpret.__type
type_body(m, dest, a) ==
    Assign(m, dest, PyStr(TypeText(a.type)), "string")
\* TYPE that reads its operand as the other instructions do.
type_reading(m, ins) ==
    OnArgs1(m, InstructionArgs(m, ins, AllTypes, FALSE, TRUE, FALSE), type_body)
type(m, ins) == OnArgs1(m, InstructionArgs(m, ins, AllTypes, FALSE, TRUE, TRUE), type_body)

\* -------------------------------------------------------------------- I/O

\* str(n) of an int: its decimal digits.
RECURSIVE NatText(_)
NatText(n) == IF n < 10 THEN <<48 + n>> ELSE NatText(n \div 10) \o <<48 + (n % 10)>>
IntText(n) == IF n < 0 THEN <<45>> \o NatText(-n) ELSE NatText(n)

\* float.hex(): sign, 0x1.<13 hex digits>p<sign><exponent>, and 0x0.0p+0
\* for zero.  The exponent e has 1 <= |v| / 2^e < 2.
RECURSIVE Exponent2(_, _)
Exponent2(n, d) ==
    IF n >= 2 * d THEN Exponent2(n, 2 * d) + 1
    ELSE IF n < d THEN Exponent2(2 * n, d) - 1
    ELSE 0
HexDigitText(x) == IF x < 10 THEN 48 + x ELSE 97 + (x - 10)
RECURSIVE HexFraction(_, _, _)
HexFraction(n, d, k) ==
    IF k = 0 THEN <<>>
    ELSE <<HexDigitText((16 * n) \div d)>> \o HexFraction((16 * n) % d, d, k - 1)
FloatHexDigits(negative, num, den, e) ==
    (IF negative THEN <<45>> ELSE <<>>) \o <<48, 120, 49, 46>>
    \o HexFraction(num - den, den, 13)
    \o <<112>> \o (IF e >= 0 THEN <<43>> ELSE <<>>) \o IntText(e)
FloatHexAt(v, e) ==
    FloatHexDigits(v.n < 0,
                   IF e >= 0 THEN Abs(v.n) ELSE Abs(v.n) * Pow(2, -e),
                   IF e >= 0 THEN v.d * Pow(2, e) ELSE v.d, e)
FloatHex(v) ==
    IF v.n = 0 THEN <<48, 120, 48, 46, 48, 112, 43, 48>>
    ELSE FloatHexAt(v, Exponent2(Abs(v.n), v.d))

\* Interpret.__process_output: the text print() writes for the Variable.
ProcessOutput(var) ==
    CASE var.type = "string" -> ParseString(var.value.s)
      [] var.type = "int" -> IntText(var.value.n)
      [] var.type = "bool" -> IF PyTruth(var.value) THEN txtTrue ELSE txtFalse
      [] var.type = "float" -> FloatHex(var.value)
      [] OTHER -> <<>>

\* The input source: file tells whether --input was given (readline() on the
\* open file) or input() reads the terminal; lines are the lines left, each
\* with its line end when it has one.
EndsWithNewline(s) == s # <<>> /\ s[Len(s)] = 10
\* Interpret.__process_input: [data |-> in_data, inp |-> the source after it].
\* An input source that hands out its first line and keeps it.
ProcessInput_peeking(inp) ==
    IF inp.lines = <<>> THEN [data |-> txtNil, inp |-> inp]
    ELSE [data |-> Head(inp.lines), inp |-> inp]
ProcessInput(inp) ==
    IF inp.lines = <<>> THEN [data |-> txtNil, inp |-> inp]
    ELSE IF inp.file \/ ~EndsWithNewline(Head(inp.lines))
    THEN [data |-> Head(inp.lines), inp |-> [inp EXCEPT !.lines = Tail(inp.lines)]]
    ELSE [data |-> SubSeq(Head(inp.lines), 1, Len(Head(inp.lines)) - 1),
          inp |-> [inp EXCEPT !.lines = Tail(inp.lines)]]

ReadTypes == AllTypes \cup {"type"}

\* Interpret.__read: ty is type[0].value, in_data what __process_input
\* returned and text = in_data.strip(); m1 is the machine after the input
\* was consumed.
read_int(m1, dest, p) ==
    IF p.ok THEN Assign(m1, dest, PyInt(p.n), "int") ELSE Assign(m1, dest, PyStr(txtNil), "nil")
read_float(m1, dest, p) ==
    IF p.ok THEN Assign(m1, dest, p.v, "float")
    ELSE IF p.raises THEN Exit(m1, Uncaught_exception)
    ELSE Assign(m1, dest, PyStr(txtNil), "nil")
read_data(m1, dest, ty, in_data, text) ==
    IF in_data = txtNil THEN Assign(m1, dest, PyStr(txtNil), "nil")
    ELSE IF PyEq(ty, PyStr(txtInt)) THEN read_int(m1, dest, ParseInt(text))
    ELSE IF PyEq(ty, PyStr(txtBool)) THEN Assign(m1, dest, PyBool(ProcessBool(text)), "bool")
    ELSE IF PyEq(ty, PyStr(txtString)) THEN Assign(m1, dest, PyStr(ParseString(text)), "string")
    ELSE IF PyEq(ty, PyStr(txtFloat)) THEN read_float(m1, dest, ParseFloat(text))
    ELSE m1
read_input(m, dest, ty, got) ==
    read_data([m EXCEPT !.inp = got.inp], dest, ty, got.data, Strip(got.data))
read_body(m, dest, a) ==
    IF a.name # <<>> THEN Exit(m, Invalid_XML_structure)
    ELSE read_input(m, dest, a.value, ProcessInput(m.inp))
read(m, ins) == OnArgs1(m, InstructionArgs(m, ins, ReadTypes, FALSE, TRUE, TRUE), read_body)

\* Interpret.__write
write_args(m, r) ==
    IF r.err # 0 THEN Exit(m, r.err)
    ELSE [m EXCEPT !.out = m.out \o ProcessOutput(ArgVar(m, r.args[1]))]
write(m, ins) == write_args(m, InstructionArgs(m, ins, AllTypes, TRUE, FALSE, FALSE))

\* Interpret.__dprint: the value goes to the error stream, which is no part
\* of the machine state.
dprint_args(m, r) == IF r.err # 0 THEN Exit(m, r.err) ELSE m
dprint(m, ins) == dprint_args(m, InstructionArgs(m, ins, AllTypes, TRUE, FALSE, FALSE))

\* Interpret.__break: the loops over a frame's dictionary yield its keys,
\* which are strings, and i.name raises AttributeError on the first of them.
break(m, ins) ==
    IF DOMAIN m.gf # {} THEN Exit(m, Uncaught_exception)
    ELSE IF Len(m.fs) # 0 /\ DOMAIN m.fs[Len(m.fs)] # {} THEN Exit(m, Uncaught_exception)
    ELSE IF m.tf.present /\ DOMAIN m.tf.frame # {} THEN Exit(m, Uncaught_exception)
    ELSE m

\* Fault: EXIT ends the run with the value as status, whatever it is.
exit_args_unchecked(m, r) ==
    IF r.err # 0 THEN Exit(m, r.err)
    ELSE Exit(m, ArgVar(m, r.args[1]).value.n)

\* Interpret.__exit
exit_args(m, r) ==
    IF r.err # 0 THEN Exit(m, r.err)
    ELSE IF 0 <= ArgVar(m, r.args[1]).value.n /\ ArgVar(m, r.args[1]).value.n <= MaxExitCode
    THEN Exit(m, ArgVar(m, r.args[1]).value.n)
    ELSE Exit(m, Invalid_value)
exit(m, ins) == exit_args(m, InstructionArgs(m, ins, {"int"}, TRUE, FALSE, FALSE))

\* ------------------------------------------------------------ the state

VARIABLES
    argv,             \* the options of the command line, in the order given
    xml,              \* self.xml.root: the <instruction> elements in document order
    instructions,     \* self.instructions: Instruction objects in execution order
    labels,           \* self.labels: label text -> its LABEL instruction
    input,            \* self.input and what is left to read from it
    current,          \* self.current: the iterator run() draws instructions from
    call_stack,       \* self.call_stack: the iterators saved by CALL
    data_stack,       \* self.data_stack
    frame_stack,      \* self.frame_stack
    temporary_frame,  \* self.temporary_frame
    global_frame,     \* self.global_frame
    stdout,           \* the text print() has written
    halted,           \* the process has ended
    exit_code,        \* its exit status once it has ended
    before,           \* history: the machine before the last instruction
    history,          \* history: indexes of the instructions executed last
    call_sites,       \* history: for each saved iterator, the index of its CALL
    matched_call,     \* history: the CALL the last instruction, a RETURN, returned from
    pushed,           \* history: the operand of the last PUSHS, until it is popped
    lf_log            \* history: per stacked frame, the slots written through LF@

\* A list iterator: the index its list starts at within self.instructions
\* (0 for iter(self.instructions), k for iter(self.instructions[k:])) and
\* the number of items it has yielded.
Iter(start) == [start |-> start, pos |-> 0]
NextIndex(it) == it.start + it.pos
HasNext(it) == NextIndex(it) < Len(instructions)

\* ------------------------------------------------------ control transfer

\* Interpret.__label
label(m, ins) == m

\* Fault: the iterator starts behind the LABEL instruction.
LabelIter_past_label(name) == Iter(labels[name].index + 1)

\* iter(self.instructions[self.labels[label].index:])
LabelIter(name) == Iter(labels[name].index)

\* Interpret.__jump
jump(m, ins) ==
    IF ins.args[1].text \notin DOMAIN labels THEN Exit(m, Semantic_error)
    ELSE [m EXCEPT !.cur = LabelIter(ins.args[1].text)]

\* Fault: CALL saves the position of the CALL itself, not the one after it.
call_saves_own_position(m, ins) ==
    IF ins.args[1].text \notin DOMAIN labels THEN Exit(m, Semantic_error)
    ELSE [m EXCEPT !.cs = Append(m.cs, [m.cur EXCEPT !.pos = @ - 1]),
                   !.cur = LabelIter(ins.args[1].text)]

\* Interpret.__call
call(m, ins) ==
    IF ins.args[1].text \notin DOMAIN labels THEN Exit(m, Semantic_error)
    ELSE [m EXCEPT !.cs = Append(m.cs, m.cur), !.cur = LabelIter(ins.args[1].text)]

\* Fault: RETURN restores the saved iterator and leaves it on the call stack.
return_keeping(m, ins) ==
    IF Len(m.cs) = 0 THEN Exit(m, Missing_value)
    ELSE [m EXCEPT !.cur = m.cs[Len(m.cs)]]

\* Interpret.__return
return(m, ins) ==
    IF Len(m.cs) = 0 THEN Exit(m, Missing_value)
    ELSE [m EXCEPT !.cur = m.cs[Len(m.cs)], !.cs = SubSeq(m.cs, 1, Len(m.cs) - 1)]

\* Interpret.__jumpifeq
jumpifeq_body(m, name, a, b) ==
    IF a.type = b.type
    THEN IF PyEq(a.value, b.value) THEN [m EXCEPT !.cur = LabelIter(name)] ELSE m
    ELSE IF a.type = "nil" \/ b.type = "nil" THEN m
    ELSE Exit(m, Invalid_type)
jumpifeq_args(m, name, r) ==
    IF r.err # 0 THEN Exit(m, r.err)
    ELSE jumpifeq_body(m, name, ArgVar(m, r.args[1]), ArgVar(m, r.args[2]))
jumpifeq(m, ins) ==
    IF ins.args[1].text \notin DOMAIN labels THEN Exit(m, Semantic_error)
    ELSE jumpifeq_args(m, ins.args[1].text, InstructionArgs(m, ins, AllTypes, FALSE, FALSE, FALSE))

\* Interpret.__jumpifeqs
jumpifeqs_body(m, name, a, b) ==
    IF a.type = b.type
    THEN IF PyEq(a.value, b.value) THEN [m EXCEPT !.cur = LabelIter(name)] ELSE m
    ELSE IF a.type = "nil" \/ b.type = "nil" THEN m
    ELSE Exit(m, Invalid_type)
jumpifeqs_args(name, r) ==
    IF r.err # 0 THEN Exit(r.m, r.err) ELSE jumpifeqs_body(r.m, name, r.args[1], r.args[2])
\* Fault: JUMPIFEQS pops its operands before it looks the label up.
jumpifeqs_pops_first(m, ins) ==
    IF ins.args[1].text \notin DOMAIN labels
    THEN Exit(GetArgsStack(m, 2, AllTypes).m, Semantic_error)
    ELSE jumpifeqs_args(ins.args[1].text, GetArgsStack(m, 2, AllTypes))
jumpifeqs(m, ins) ==
    IF ins.args[1].text \notin DOMAIN labels THEN Exit(m, Semantic_error)
    ELSE jumpifeqs_args(ins.args[1].text, GetArgsStack(m, 2, AllTypes))

\* Interpret.__jumpifneq
jumpifneq_body(m, name, a, b) ==
    IF a.type = b.type
    THEN IF ~PyEq(a.value, b.value) THEN [m EXCEPT !.cur = LabelIter(name)] ELSE m
    ELSE IF a.type = "nil" \/ b.type = "nil" THEN [m EXCEPT !.cur = LabelIter(name)]
    ELSE Exit(m, Invalid_type)
jumpifneq_args(m, name, r) ==
    IF r.err # 0 THEN Exit(m, r.err)
    ELSE jumpifneq_body(m, name, ArgVar(m, r.args[1]), ArgVar(m, r.args[2]))
jumpifneq(m, ins) ==
    IF ins.args[1].text \notin DOMAIN labels THEN Exit(m, Semantic_error)
    ELSE jumpifneq_args(m, ins.args[1].text, InstructionArgs(m, ins, AllTypes, FALSE, FALSE, FALSE))

\* Interpret.__jumpifneqs
jumpifneqs_body(m, name, a, b) ==
    IF a.type = b.type
    THEN IF ~PyEq(a.value, b.value) THEN [m EXCEPT !.cur = LabelIter(name)] ELSE m
    ELSE IF a.type = "nil" \/ b.type = "nil" THEN [m EXCEPT !.cur = LabelIter(name)]
    ELSE Exit(m, Invalid_type)
jumpifneqs_args(name, r) ==
    IF r.err # 0 THEN Exit(r.m, r.err) ELSE jumpifneqs_body(r.m, name, r.args[1], r.args[2])
jumpifneqs(m, ins) ==
    IF ins.args[1].text \notin DOMAIN labels THEN Exit(m, Semantic_error)
    ELSE jumpifneqs_args(ins.args[1].text, GetArgsStack(m, 2, AllTypes))

\* ------------------------------------------------------------- loading

\* An <instruction> element of the document and an <argN> element of it.
Arg(kind, text) == [type |-> kind, text |-> text]
Element(opcode, order, args) == [opcode |-> opcode, order |-> order, args |-> args]

\* An <argN> element as the document holds it: N, the type attribute and
\* the text, <<>> for an element without text.
ArgElement(tag, kind, text) == [tag |-> tag, type |-> kind, text |-> text]

\* XMLParser._check_instructions: the opcodes by the number of operands.
Arity0 == {"CREATEFRAME", "PUSHFRAME", "POPFRAME", "RETURN", "BREAK", "ADDS", "SUBS", "MULS",
           "IDIVS", "LTS", "GTS", "EQS", "ANDS", "ORS", "NOTS", "INT2CHARS", "STRI2INTS",
           "INT2FLOATS", "FLOAT2INTS", "DIVS", "CLEARS"}
Arity1 == {"CALL", "LABEL", "JUMP", "PUSHS", "EXIT", "DPRINT", "WRITE", "DEFVAR", "POPS",
           "JUMPIFEQS", "JUMPIFNEQS"}
Arity2 == {"MOVE", "INT2CHAR", "STRLEN", "TYPE", "NOT", "READ", "INT2FLOAT", "FLOAT2INT"}
Arity3 == {"ADD", "SUB", "MUL", "IDIV", "DIV", "LT", "GT", "EQ", "AND", "OR", "STRI2INT",
           "CONCAT", "GETCHAR", "SETCHAR", "JUMPIFEQ", "JUMPIFNEQ"}
Opcodes == Arity0 \cup Arity1 \cup Arity2 \cup Arity3
ArityOf(opcode) ==
    CASE opcode \in Arity0 -> 0
      [] opcode \in Arity1 -> 1
      [] opcode \in Arity2 -> 2
      [] OTHER -> 3
\* str.isdigit()
IsDigits(s) == s # <<>> /\ \A i \in 1..Len(s) : IsDigit(s[i])
\* Element i of the document fails _check_instructions: its order is not
\* digits, its opcode is unknown, its number of operands differs from the
\* opcode's, or its order attribute is that of an element before it.
BadInstruction(doc, i) ==
    \/ ~IsDigits(doc[i].order)
    \/ doc[i].opcode \notin Opcodes
    \/ Len(doc[i].args) # ArityOf(doc[i].opcode)
    \/ \E j \in 1..(i - 1) : doc[j].order = doc[i].order

\* XMLParser._check_args fails on element e: an operand of unknown type, an
\* operand without text that is no string, or a number in 1..n that is the
\* tag of no operand.
ArgKinds == {"var", "label", "nil", "int", "bool", "string", "type", "float"}
BadArgs(e) ==
    \/ \E j \in 1..Len(e.args) :
           \/ e.args[j].type \notin ArgKinds
           \/ e.args[j].text = <<>> /\ e.args[j].type # "string"
    \/ \E i \in 1..Len(e.args) : \A j \in 1..Len(e.args) : e.args[j].tag # i
\* A parser that accepts every document.
BadXml_unchecked(doc) == FALSE
\* XMLParser._check_xml over the elements of the document.
BadXml(doc) == \E i \in 1..Len(doc) : BadInstruction(doc, i) \/ BadArgs(doc[i])

\* XMLParser._check_args: arg.text = arg.text.strip()
CheckArgs(e) ==
    [e EXCEPT !.args = [j \in 1..Len(e.args) |-> [e.args[j] EXCEPT !.text = Strip(@)]]]

\* int(x.attrib['order'])
OrderOf(e) == DigitsValue(e.order, 10)

\* self.instructions.sort(key=lambda x: int(x.attrib['order'])): a stable
\* sort, elements of equal key keep their document order.  The place of
\* doc[j] in the result is one more than the number of elements before it.
SortsBefore(doc, i, j) ==
    \/ OrderOf(doc[i]) < OrderOf(doc[j])
    \/ OrderOf(doc[i]) = OrderOf(doc[j]) /\ i < j
\* The elements left in document order.
SortByOrder_document(doc) == doc
SortByOrder(doc) ==
    [k \in 1..Len(doc) |->
        doc[CHOOSE j \in 1..Len(doc) :
                Cardinality({i \in 1..Len(doc) : SortsBefore(doc, i, j)}) = k - 1]]

\* Instruction._get_args: sorted(instruction, key=lambda x: int(x.tag[3:])),
\* a stable sort of the operands by their tag.
TagBefore(args, i, j) ==
    \/ args[i].tag < args[j].tag
    \/ args[i].tag = args[j].tag /\ i < j
SortByTag(args) ==
    [k \in 1..Len(args) |->
        args[CHOOSE j \in 1..Len(args) :
                 Cardinality({i \in 1..Len(args) : TagBefore(args, i, j)}) = k - 1]]
GetArgs(args) == [k \in 1..Len(args) |-> Arg(args[k].type, args[k].text)]

\* Instruction.__init__
Instruction(e, index) ==
    [opcode |-> e.opcode, args |-> GetArgs(SortByTag(e.args)), index |-> index,
     order |-> e.order]

\* Instruction._get_args: an order below 1 ends the run.
BadOrder(e) == OrderOf(e) < 1

\* Interpret.__get_labels: the table, and whether a label is defined twice.
LabelNames(ins) == {ins[i].args[1].text : i \in {j \in 1..Len(ins) : ins[j].opcode = "LABEL"}}
Definitions(ins, name) ==
    {i \in 1..Len(ins) : ins[i].opcode = "LABEL" /\ ins[i].args[1].text = name}
\* Fault: a second definition of a label goes unnoticed.
DuplicateLabel_unnoticed(ins) == FALSE
DuplicateLabel(ins) == \E name \in LabelNames(ins) : Cardinality(Definitions(ins, name)) > 1
GetLabels(ins) ==
    [name \in LabelNames(ins) |->
        ins[CHOOSE i \in Definitions(ins, name) : \A k \in Definitions(ins, name) : i <= k]]

\* Interpret.__init__ up to self.labels: [err |-> 0 or the status the
\* constructor exits with, instructions, labels].
NoLabels == [name \in {} |-> Instruction(Element("LABEL", <<>>, <<>>), 0)]
Load(doc) ==
    LET sorted == SortByOrder([j \in 1..Len(doc) |-> CheckArgs(doc[j])])
        ins == [j \in 1..Len(sorted) |-> Instruction(sorted[j], j - 1)]
    IN  IF BadXml(doc)
        THEN [err |-> Invalid_XML_structure, instructions |-> <<>>, labels |-> NoLabels]
        ELSE IF \E j \in 1..Len(sorted) : BadOrder(sorted[j])
        THEN [err |-> Invalid_XML_structure, instructions |-> <<>>, labels |-> NoLabels]
        ELSE IF DuplicateLabel(ins)
        THEN [err |-> Semantic_error, instructions |-> ins, labels |-> NoLabels]
        ELSE [err |-> 0, instructions |-> ins, labels |-> GetLabels(ins)]

\* XMLParser.get_input: the source READ draws from.
Input(file, lines) == [file |-> file, lines |-> lines]

\* An option of the command line with the values that follow it: the
\* document a --source value names, the lines of the file an --input value
\* names.
Option(name, values) == [name |-> name, values |-> values]
Occurrences(cmd, name) == {i \in 1..Len(cmd) : cmd[i].name = name}
LastOf(S) == CHOOSE i \in S : \A j \in S : j <= i
\* argparse, action store with nargs="*": None when the option is absent,
\* else the values of its last occurrence.
Stored(cmd, name) ==
    IF Occurrences(cmd, name) = {} THEN [none |-> TRUE, values |-> <<>>]
    ELSE [none |-> FALSE, values |-> cmd[LastOf(Occurrences(cmd, name))].values]
\* ArgParser.parse on the namespace argparse built (--help apart).
parse(source, inp) ==
    IF ~source.none /\ Len(source.values) > 1 THEN Missing_parameter
    ELSE IF ~inp.none /\ Len(inp.values) > 1 THEN Missing_parameter
    ELSE IF source.none /\ inp.none THEN Missing_parameter
    ELSE 0
\* The standard input: its lines and, when its text is a document ("xml"),
\* the document.
Stdin(kind, doc, lines) == [kind |-> kind, doc |-> doc, lines |-> lines]
\* XMLParser._parse: the document of the standard input without --source,
\* else of args.source[0].
Parsed(source, stdin) ==
    IF source.none
    THEN IF stdin.kind = "xml" THEN [err |-> 0, doc |-> stdin.doc]
         ELSE [err |-> Invalid_XML, doc |-> <<>>]
    ELSE IF source.values = <<>> THEN [err |-> Uncaught_exception, doc |-> <<>>]
    ELSE [err |-> 0, doc |-> source.values[1]]
\* XMLParser.get_input: the file args.input[0], or the standard input.
GetInput(inp, stdin) ==
    IF inp.none THEN [err |-> 0, input |-> Input(FALSE, stdin.lines)]
    ELSE IF inp.values = <<>> THEN [err |-> Uncaught_exception, input |-> Input(FALSE, <<>>)]
    ELSE [err |-> 0, input |-> Input(TRUE, inp.values[1])]
\* XMLParser.__init__ and Interpret.__init__: the status the construction
\* ends the run with, 0 when it does not, the document, the instructions,
\* the labels and the input.
Constructed(err, doc, loaded, got) ==
    [err |-> err, doc |-> doc, instructions |-> loaded.instructions, labels |-> loaded.labels,
     input |-> got.input]
Unloaded == [err |-> 0, instructions |-> <<>>, labels |-> NoLabels]
Unopened == [err |-> 0, input |-> Input(FALSE, <<>>)]
Opened(doc, loaded, got) ==
    IF got.err # 0
    THEN Constructed(got.err, doc, loaded, Unopened)
    ELSE Constructed(0, doc, loaded, got)
Checked(doc, loaded, inp, stdin) ==
    IF loaded.err # 0
    THEN Constructed(loaded.err, doc, loaded, Unopened)
    ELSE Opened(doc, loaded, GetInput(inp, stdin))
Sourced(p, inp, stdin) ==
    IF p.err # 0 THEN Constructed(p.err, <<>>, Unloaded, Unopened)
    ELSE Checked(p.doc, Load(p.doc), inp, stdin)
Construct(cmd, stdin) ==
    IF parse(Stored(cmd, "source"), Stored(cmd, "input")) # 0
    THEN Constructed(Missing_parameter, <<>>, Unloaded, Unopened)
    ELSE Sourced(Parsed(Stored(cmd, "source"), stdin), Stored(cmd, "input"), stdin)

\* ------------------------------------------------------------ programs

\* Names and texts the programs are written with.
nameA == <<97>>
nameB == <<98>>
nameC == <<99>>
nameD == <<100>>
nameE == <<101>>
nameX == <<120>>
nameY == <<121>>
VarArg(frame, name) == Arg("var", frame \o <<cpAt>> \o name)
LabelArg(name) == Arg("label", name)
IntArg(n) == Arg("int", IntText(n))
Stmt(opcode, args) == [opcode |-> opcode, args |-> args]

IntLits == {IntArg(n) : n \in {-Pow(2, MaxBits), 0, 1, Pow(2, MaxBits)}}
BoolLits == {Arg("bool", txtTrue), Arg("bool", txtFalse)}
\* "", "a" and "\098", which is "b"
StringLits == {Arg("string", <<>>), Arg("string", <<97>>), Arg("string", <<92, 48, 57, 56>>)}
\* nil@nil and nil@x
NilLits == {Arg("nil", txtNil), Arg("nil", <<120>>)}
\* 0x1.8p+1, which is 3.0, and -0.75
FloatLits == {Arg("float", <<48, 120, 49, 46, 56, 112, 43, 49>>),
              Arg("float", <<45, 48, 46, 55, 53>>)}
Lits == IntLits \cup BoolLits \cup StringLits \cup NilLits \cup FloatLits
\* One literal of each type, for the programs that initialise a variable.
FewLits == {IntArg(1), Arg("bool", txtTrue), Arg("string", <<97>>), Arg("nil", txtNil),
            Arg("float", <<45, 48, 46, 55, 53>>)}

\* The document of a list of statements: in order with orders 1, 2, ..;
\* with gaps between the orders; or written last statement first.
Layouts == {"plain", "gaps", "reversed"}
Tagged(args) == [j \in 1..Len(args) |-> ArgElement(j, args[j].type, args[j].text)]
Document(stmts, layout) ==
    LET n == Len(stmts)
    IN  [j \in 1..n |->
            CASE layout = "plain" -> Element(stmts[j].opcode, IntText(j), Tagged(stmts[j].args))
              [] layout = "gaps" ->
                    Element(stmts[j].opcode, IntText(3 * j + 2), Tagged(stmts[j].args))
              [] OTHER -> Element(stmts[n + 1 - j].opcode, IntText(5 * (n + 1 - j)),
                                  Tagged(stmts[n + 1 - j].args))]

NoInput == Input(FALSE, <<>>)
\* The run on the command line --source <doc>, with --input <lines> or with
\* the lines on the standard input.
RunOf(doc, inp) ==
    IF inp.file
    THEN [argv |-> <<Option("source", <<doc>>), Option("input", <<inp.lines>>)>>,
          stdin |-> Stdin("text", <<>>, <<>>)]
    ELSE [argv |-> <<Option("source", <<doc>>)>>, stdin |-> Stdin("text", <<>>, inp.lines)]
Run(stmts, layout, inp) == RunOf(Document(stmts, layout), inp)

GFd == VarArg(txtGF, nameD)
GFx == VarArg(txtGF, nameX)
GFy == VarArg(txtGF, nameY)
LFa == VarArg(txtLF, nameA)
TFa == VarArg(txtTF, nameA)

RegisterBinary == {"ADD", "SUB", "MUL", "IDIV", "DIV", "LT", "GT", "EQ", "AND", "OR",
                   "STRI2INT", "CONCAT", "GETCHAR", "SETCHAR"}
RegisterUnary == {"MOVE", "NOT", "INT2CHAR", "STRLEN", "TYPE", "INT2FLOAT", "FLOAT2INT"}
SourceOnly == {"WRITE", "DPRINT", "EXIT", "PUSHS"}
StackBinary == {"ADDS", "SUBS", "MULS", "IDIVS", "DIVS", "LTS", "GTS", "EQS", "ANDS", "ORS",
                "STRI2INTS"}
StackUnary == {"NOTS", "INT2CHARS", "INT2FLOATS", "FLOAT2INTS", "CLEARS"}
StackJumps == {"JUMPIFEQS", "JUMPIFNEQS"}
RegisterJumps == {"JUMPIFEQ", "JUMPIFNEQ"}

\* DEFVAR GF@d, then nothing or MOVE GF@d <literal>.
Prefixes == {<<Stmt("DEFVAR", <<GFd>>)>>}
            \cup {<<Stmt("DEFVAR", <<GFd>>), Stmt("MOVE", <<GFd, l>>)>> : l \in FewLits}
Operands == FewLits \cup {GFd}
\* The pairs of operands of which at least one is GF@d.
VariablePairs == {p \in Operands \X Operands : p[1] = GFd \/ p[2] = GFd}

\* DEFVAR GF@d; OP GF@d a b over all pairs of literals.
LiteralPrograms ==
    {<<Stmt("DEFVAR", <<GFd>>), Stmt(op, <<GFd, a, b>>)>> :
        op \in RegisterBinary, a \in Lits, b \in Lits}
    \cup {<<Stmt("DEFVAR", <<GFd>>), Stmt(op, <<GFd, a>>)>> : op \in RegisterUnary, a \in Lits}
    \cup {<<Stmt(op, <<a>>)>> : op \in SourceOnly, a \in Lits}

\* The same opcodes with GF@d, initialised or not, among the sources.
VariablePrograms ==
    {pre \o <<Stmt(op, <<GFd, p[1], p[2]>>)>> :
        pre \in Prefixes, op \in RegisterBinary, p \in VariablePairs}
    \cup {pre \o <<Stmt(op, <<GFd, GFd>>)>> : pre \in Prefixes, op \in RegisterUnary}
    \cup {pre \o <<Stmt(op, <<GFd>>)>> : pre \in Prefixes, op \in SourceOnly}

\* PUSHS <bottom>; PUSHS a; PUSHS b; OPS, and the same with too few entries.
StackPrograms ==
    {<<Stmt("PUSHS", <<IntArg(0)>>), Stmt("PUSHS", <<a>>), Stmt("PUSHS", <<b>>), Stmt(op, <<>>)>> :
        op \in StackBinary \cup StackUnary, a \in Lits, b \in Lits}
    \cup {<<Stmt("PUSHS", <<a>>), Stmt(op, <<>>)>> : op \in StackBinary \cup StackUnary, a \in FewLits}
    \cup {<<Stmt("PUSHS", <<a>>), Stmt("PUSHS", <<b>>), Stmt(op, <<LabelArg(nameA)>>),
            Stmt("LABEL", <<LabelArg(nameA)>>)>> : op \in StackJumps, a \in Lits, b \in Lits}
    \cup {<<Stmt("PUSHS", <<a>>), Stmt(op, <<LabelArg(l)>>), Stmt("LABEL", <<LabelArg(nameA)>>)>> :
            op \in StackJumps, a \in FewLits, l \in {nameA, nameB}}

\* JUMPIFEQ/JUMPIFNEQ over literals and over GF@d, to a defined label and to
\* an undefined one.
JumpPrograms ==
    {<<Stmt(op, <<LabelArg(nameA), a, b>>), Stmt("LABEL", <<LabelArg(nameA)>>)>> :
        op \in RegisterJumps, a \in Lits, b \in Lits}
    \cup {pre \o <<Stmt(op, <<LabelArg(l), p[1], p[2]>>), Stmt("LABEL", <<LabelArg(nameA)>>)>> :
            pre \in Prefixes, op \in RegisterJumps, l \in {nameA, nameB}, p \in VariablePairs}

\* PUSHS of a variable or a literal, the variable reassigned or not, then
\* POPS into another variable or into the same one.
Reassignments ==
    {<<>>, <<Stmt("READ", <<GFx, Arg("type", txtInt)>>)>>, <<Stmt("ADD", <<GFx, GFx, GFx>>)>>,
     <<Stmt("CONCAT", <<GFx, GFx, GFx>>)>>, <<Stmt("NOT", <<GFx, GFx>>)>>}
    \cup {<<Stmt("MOVE", <<GFx, l>>)>> : l \in FewLits}
PushPopPrograms ==
    {<<Stmt("DEFVAR", <<GFx>>), Stmt("MOVE", <<GFx, l>>), Stmt("PUSHS", <<GFx>>)>> \o mid
        \o <<Stmt("DEFVAR", <<GFy>>), Stmt("POPS", <<y>>)>> :
        l \in FewLits, mid \in Reassignments, y \in {GFx, GFy}}
    \cup {<<Stmt("PUSHS", <<l>>), Stmt("DEFVAR", <<GFy>>), Stmt("POPS", <<GFy>>)>> : l \in Lits}

\* GF@x assigned, pushed and moved to GF@y, then assigned again; the same
\* between a local and a temporary slot of one name.
MovePrograms ==
    {<<Stmt("DEFVAR", <<GFx>>), Stmt("MOVE", <<GFx, a>>), Stmt("PUSHS", <<GFx>>),
       Stmt("DEFVAR", <<GFy>>), Stmt("MOVE", <<GFy, GFx>>), Stmt("MOVE", <<GFx, b>>)>> :
        a \in FewLits, b \in FewLits}
    \cup {<<Stmt("CREATEFRAME", <<>>), Stmt("DEFVAR", <<TFa>>), Stmt("MOVE", <<TFa, IntArg(1)>>),
            Stmt("PUSHFRAME", <<>>), Stmt("CREATEFRAME", <<>>), Stmt("DEFVAR", <<TFa>>),
            Stmt("MOVE", <<TFa, LFa>>), Stmt("MOVE", <<LFa, Arg("string", <<97>>)>>)>>}

\* An int literal that is no int, as the operand of an instruction that is
\* executed after a WRITE and of one that a JUMP skips.
BadInts == {Arg("int", <<97, 98, 99>>), Arg("int", <<49, 46, 53>>)}
WriteA == Stmt("WRITE", <<Arg("string", <<97>>)>>)
BadLiteralPrograms ==
    {<<WriteA, Stmt(op, <<b>>), WriteA>> : op \in {"WRITE", "PUSHS", "EXIT"}, b \in BadInts}
    \cup {<<Stmt("DEFVAR", <<GFd>>), WriteA, Stmt("MOVE", <<GFd, b>>), WriteA>> : b \in BadInts}
    \cup {<<WriteA, Stmt("JUMP", <<LabelArg(nameA)>>), Stmt(op, <<b>>),
            Stmt("LABEL", <<LabelArg(nameA)>>), WriteA>> :
            op \in {"WRITE", "PUSHS", "EXIT"}, b \in BadInts}

\* CREATEFRAME, then every sequence of MaxLen frame statements.
FrameAlphabet ==
    {Stmt("CREATEFRAME", <<>>), Stmt("PUSHFRAME", <<>>), Stmt("POPFRAME", <<>>),
     Stmt("DEFVAR", <<LFa>>), Stmt("MOVE", <<LFa, IntArg(1)>>), Stmt("DEFVAR", <<TFa>>)}
FramePrograms ==
    {<<Stmt("CREATEFRAME", <<>>)>> \o s : s \in [1..MaxLen -> FrameAlphabet]}
    \cup {<<Stmt("BREAK", <<>>)>>, <<Stmt("DEFVAR", <<GFd>>), Stmt("BREAK", <<>>)>>,
          <<Stmt("CREATEFRAME", <<>>), Stmt("DEFVAR", <<TFa>>), Stmt("BREAK", <<>>)>>,
          <<Stmt("CREATEFRAME", <<>>), Stmt("DEFVAR", <<TFa>>), Stmt("PUSHFRAME", <<>>),
            Stmt("BREAK", <<>>)>>}

\* Every sequence of MaxLen control statements, and longer programs with
\* nested calls, jumps inside a call and a CALL as the last instruction.
ControlAlphabet ==
    {Stmt("LABEL", <<LabelArg(nameA)>>), Stmt("LABEL", <<LabelArg(nameB)>>),
     Stmt("CALL", <<LabelArg(nameA)>>), Stmt("CALL", <<LabelArg(nameB)>>),
     Stmt("RETURN", <<>>), Stmt("JUMP", <<LabelArg(nameB)>>)}
ControlPrograms == [1..MaxLen -> ControlAlphabet]
NestedCalls ==
    <<Stmt("CALL", <<LabelArg(nameA)>>), Stmt("JUMP", <<LabelArg(nameE)>>),
      Stmt("LABEL", <<LabelArg(nameA)>>), Stmt("CALL", <<LabelArg(nameB)>>),
      Stmt("RETURN", <<>>),
      Stmt("LABEL", <<LabelArg(nameB)>>),
      Stmt("JUMPIFEQ", <<LabelArg(nameC), IntArg(1), IntArg(1)>>),
      Stmt("WRITE", <<IntArg(0)>>),
      Stmt("LABEL", <<LabelArg(nameC)>>), Stmt("RETURN", <<>>),
      Stmt("LABEL", <<LabelArg(nameE)>>)>>
CallLast ==
    <<Stmt("JUMP", <<LabelArg(nameB)>>), Stmt("LABEL", <<LabelArg(nameA)>>),
      Stmt("PUSHS", <<IntArg(1)>>), Stmt("PUSHS", <<IntArg(0)>>),
      Stmt("JUMPIFNEQS", <<LabelArg(nameC)>>), Stmt("WRITE", <<IntArg(0)>>),
      Stmt("LABEL", <<LabelArg(nameC)>>), Stmt("RETURN", <<>>),
      Stmt("LABEL", <<LabelArg(nameB)>>), Stmt("CALL", <<LabelArg(nameA)>>)>>
CallInLoop ==
    <<Stmt("DEFVAR", <<GFd>>), Stmt("MOVE", <<GFd, IntArg(0)>>),
      Stmt("LABEL", <<LabelArg(nameA)>>), Stmt("CALL", <<LabelArg(nameB)>>),
      Stmt("JUMPIFNEQ", <<LabelArg(nameA), GFd, IntArg(MaxBits)>>),
      Stmt("EXIT", <<IntArg(0)>>),
      Stmt("LABEL", <<LabelArg(nameB)>>), Stmt("ADD", <<GFd, GFd, IntArg(1)>>),
      Stmt("PUSHS", <<GFd>>), Stmt("PUSHS", <<GFd>>),
      Stmt("JUMPIFEQS", <<LabelArg(nameC)>>), Stmt("WRITE", <<IntArg(0)>>),
      Stmt("LABEL", <<LabelArg(nameC)>>), Stmt("RETURN", <<>>)>>
LongPrograms == {NestedCalls, CallLast, CallInLoop}

\* IDIV over the small integers of both signs, into a fresh GF@d and into
\* GF@d holding Int 1.
DivisionInts == {IntArg(n) : n \in -(MaxBits + 1)..(MaxBits + 1)}
DivisionPrograms ==
    {pre \o <<Stmt("IDIV", <<GFd, a, b>>)>> :
        pre \in {<<Stmt("DEFVAR", <<GFd>>)>>,
                 <<Stmt("DEFVAR", <<GFd>>), Stmt("MOVE", <<GFd, IntArg(1)>>)>>},
        a \in DivisionInts, b \in DivisionInts}

\* DEFVAR GF@d; READ GF@d <type>, over what the input holds.
TypeArgs == {Arg("type", txtInt), Arg("type", txtBool), Arg("type", txtString),
             Arg("type", txtFloat)}
ReadPrograms == {<<Stmt("DEFVAR", <<GFd>>), Stmt("READ", <<GFd, ty>>)>> : ty \in TypeArgs}
\* no line; an empty line; "1"; " true"; "abc"; "0x1.8p+0"; "nil"
InputLines ==
    {<<>>, <<<<10>>>>, <<<<49, 10>>>>, <<<<32, 116, 114, 117, 101>>>>,
     <<<<97, 98, 99, 10>>>>, <<<<48, 120, 49, 46, 56, 112, 43, 48, 10>>>>,
     <<<<110, 105, 108, 10>>>>}
Inputs == {Input(file, lines) : file \in BOOLEAN, lines \in InputLines}

\* READ with a literal, the token nil or GF@d itself in the place of the
\* type token, the input holding the line "1".
ReadOperands == FewLits \cup {Arg("string", txtInt), Arg("type", txtNil), GFd}
ReadOperandPrograms ==
    {<<Stmt("DEFVAR", <<GFd>>), Stmt("READ", <<GFd, a>>)>> : a \in ReadOperands}
OneLine == <<<<49, 10>>>>

\* WRITE of strings that hold a backslash and three digits once decoded:
\* the literal \092065, and the CONCAT of the literals \092 and 065.
EscapedBackslash == <<92, 48, 57, 50>>
EscapePrograms ==
    {<<Stmt("WRITE", <<Arg("string", EscapedBackslash \o <<48, 54, 53>>)>>)>>,
     <<Stmt("DEFVAR", <<GFd>>),
       Stmt("CONCAT", <<GFd, Arg("string", EscapedBackslash), Arg("string", <<48, 54, 53>>)>>),
       Stmt("WRITE", <<GFd>>)>>}

\* Operands of kind var that are not <frame>@<name>: XX@a, a, GF and
\* GF@d@x; as the operand of DEFVAR, as a destination and as a source.
MalformedVars ==
    {VarArg(<<88, 88>>, nameA), Arg("var", nameA), Arg("var", txtGF),
     VarArg(txtGF, nameD \o <<cpAt>> \o nameX)}
MalformedPrograms ==
    {<<Stmt("DEFVAR", <<v>>)>> : v \in MalformedVars}
    \cup {<<Stmt("WRITE", <<v>>)>> : v \in MalformedVars}
    \cup {pre \o <<Stmt("MOVE", <<v, IntArg(1)>>)>> : pre \in Prefixes, v \in MalformedVars}
    \cup {pre \o <<Stmt("MOVE", <<GFd, v>>)>> : pre \in Prefixes, v \in MalformedVars}

\* EXIT at and around the ends of the accepted range, between two WRITEs.
ExitCodes == {-1, 0, MaxExitCode, MaxExitCode + 1}
ExitPrograms ==
    {<<Stmt("WRITE", <<Arg("string", <<97>>)>>), Stmt("EXIT", <<IntArg(v)>>),
       Stmt("WRITE", <<Arg("string", <<97>>)>>)>> : v \in ExitCodes}

\* The name a defined in GF, in LF and in TF, each slot given another
\* value, then defined again in one of the frames.
GFa == VarArg(txtGF, nameA)
SameNamePrograms ==
    {<<Stmt("DEFVAR", <<GFa>>), Stmt("MOVE", <<GFa, IntArg(1)>>),
       Stmt("CREATEFRAME", <<>>), Stmt("DEFVAR", <<TFa>>),
       Stmt("MOVE", <<TFa, Arg("string", <<97>>)>>), Stmt("PUSHFRAME", <<>>),
       Stmt("CREATEFRAME", <<>>), Stmt("DEFVAR", <<TFa>>),
       Stmt("MOVE", <<TFa, Arg("bool", txtTrue)>>), Stmt("DEFVAR", <<v>>)>> :
        v \in {GFa, LFa, TFa}}

\* TF@a and LF@a as a source, as the operand TYPE inspects and as a
\* destination, the frame missing or there without the slot.
AccessesOf(v) ==
    {<<Stmt("WRITE", <<v>>)>>, <<Stmt("PUSHS", <<v>>)>>,
     <<Stmt("DEFVAR", <<GFd>>), Stmt("MOVE", <<GFd, v>>)>>,
     <<Stmt("DEFVAR", <<GFd>>), Stmt("TYPE", <<GFd, v>>)>>,
     <<Stmt("READ", <<v, Arg("type", txtInt)>>)>>, <<Stmt("POPS", <<v>>)>>}
FrameAccesses == AccessesOf(LFa) \cup AccessesOf(TFa)
FrameAccessPrograms ==
    FrameAccesses
    \cup {<<Stmt("CREATEFRAME", <<>>), Stmt("PUSHFRAME", <<>>)>> \o s : s \in FrameAccesses}

\* A program that reads, writes and exits before two LABELs, of the same
\* name or of two names.
LabelledTail(name) ==
    <<Stmt("DEFVAR", <<GFd>>), Stmt("READ", <<GFd, Arg("type", txtInt)>>),
      Stmt("WRITE", <<GFd>>), Stmt("EXIT", <<IntArg(0)>>),
      Stmt("LABEL", <<LabelArg(nameA)>>), Stmt("LABEL", <<LabelArg(name)>>)>>
LabelledTailPrograms == {LabelledTail(nameA), LabelledTail(nameB)}

\* The strings "", "ab" and "a\098c", which is "abc", and the indexes from
\* before the first character to after the last: SETCHAR into GF@d holding
\* one of the strings, another literal or nothing; STRI2INT and GETCHAR of a
\* literal and of GF@d itself; STRI2INTS of two pushed literals.
SomeStrings == {Arg("string", <<>>), Arg("string", <<97, 98>>),
                Arg("string", <<97, 92, 48, 57, 56, 99>>)}
Indexes == {IntArg(n) : n \in -MaxLen..MaxLen}
\* "", "x" and "\121z", which is "yz"
Replacements == {Arg("string", <<>>), Arg("string", <<120>>),
                 Arg("string", <<92, 49, 50, 49, 122>>)}
StringPrefixes ==
    {<<Stmt("DEFVAR", <<GFd>>), Stmt("MOVE", <<GFd, l>>)>> : l \in SomeStrings}
SetcharPrograms ==
    {pre \o <<Stmt("SETCHAR", <<GFd, i, c>>)>> :
        pre \in Prefixes \cup StringPrefixes, i \in Indexes, c \in Replacements}
IndexPrograms ==
    {<<Stmt("DEFVAR", <<GFd>>), Stmt(op, <<GFd, l, i>>)>> :
        op \in {"STRI2INT", "GETCHAR"}, l \in SomeStrings, i \in Indexes}
    \cup {pre \o <<Stmt(op, <<GFd, GFd, i>>)>> :
            pre \in StringPrefixes, op \in {"STRI2INT", "GETCHAR"}, i \in Indexes}
    \cup {<<Stmt("PUSHS", <<l>>), Stmt("PUSHS", <<i>>), Stmt("STRI2INTS", <<>>)>> :
            l \in SomeStrings, i \in Indexes}

\* TYPE of another variable, GF@x, initialised or not.
TypePrograms ==
    {<<Stmt("DEFVAR", <<GFd>>), Stmt("DEFVAR", <<GFx>>)>> \o mid
        \o <<Stmt("TYPE", <<GFd, GFx>>)>> :
        mid \in {<<>>} \cup {<<Stmt("MOVE", <<GFx, l>>)>> : l \in FewLits}}

\* Two READs of a string, each followed by the WRITE of what was read, then
\* the WRITE of a variable that does not exist; the input holds none to
\* three of the lines a, b and c.
ReadWriteTwice ==
    <<Stmt("DEFVAR", <<GFd>>),
      Stmt("READ", <<GFd, Arg("type", txtString)>>), Stmt("WRITE", <<GFd>>),
      Stmt("READ", <<GFd, Arg("type", txtString)>>), Stmt("WRITE", <<GFd>>),
      Stmt("WRITE", <<Arg("string", <<33>>)>>), Stmt("WRITE", <<GFx>>)>>
ThreeLines == <<<<97, 10>>, <<98, 10>>, <<99, 10>>>>
SomeLines == {SubSeq(ThreeLines, 1, n) : n \in 0..3}

\* Two WRITEs, of "a" and of "b", under each pair of the order attributes
\* 1, 01, 2, 02, 0 and +1.
OrderTexts == {<<49>>, <<48, 49>>, <<50>>, <<48, 50>>, <<48>>, <<43, 49>>}
WriteElement(order, c) == Element("WRITE", order, <<ArgElement(1, "string", <<c>>)>>)
OrderDocuments ==
    {<<WriteElement(o1, 97), WriteElement(o2, 98)>> : o1 \in OrderTexts, o2 \in OrderTexts}

\* Elements that XMLParser or Instruction rejects: an unknown opcode, too
\* few and too many operands, operand tags {2}, {1, 3} and {1, 1}, an
\* operand of unknown type, an int operand without text, the order 0; and
\* one that is accepted, a MOVE with arg2 written before arg1.
ArgGFd(tag) == ArgElement(tag, "var", txtGF \o <<cpAt>> \o nameD)
ArgOne(tag) == ArgElement(tag, "int", <<49>>)
RejectedElements ==
    {Element("NOP", <<52>>, <<>>),
     Element("WRITE", <<52>>, <<>>),
     Element("WRITE", <<52>>, <<ArgGFd(1), ArgOne(2)>>),
     Element("CREATEFRAME", <<52>>, <<ArgOne(1)>>),
     Element("MOVE", <<52>>, <<ArgGFd(1)>>),
     Element("WRITE", <<52>>, <<ArgGFd(2)>>),
     Element("MOVE", <<52>>, <<ArgGFd(1), ArgOne(3)>>),
     Element("MOVE", <<52>>, <<ArgGFd(1), ArgOne(1)>>),
     Element("WRITE", <<52>>, <<ArgElement(1, "integer", <<49>>)>>),
     Element("WRITE", <<52>>, <<ArgElement(1, "int", <<>>)>>),
     Element("WRITE", <<48>>, <<ArgGFd(1)>>)}
AcceptedElements == {Element("MOVE", <<52>>, <<ArgOne(2), ArgGFd(1)>>)}
\* DEFVAR GF@d; READ GF@d int; WRITE GF@d and one more element, written
\* after them or before them.
ReadsAndWrites ==
    Document(<<Stmt("DEFVAR", <<GFd>>), Stmt("READ", <<GFd, Arg("type", txtInt)>>),
               Stmt("WRITE", <<GFd>>)>>, "plain")
ElementDocuments ==
    {ReadsAndWrites \o <<e>> : e \in RejectedElements \cup AcceptedElements}
    \cup {<<e>> \o ReadsAndWrites : e \in RejectedElements \cup AcceptedElements}

\* The document A writes A; the document B reads a line and writes B and
\* the line. The command lines of up to three options, each --source or
\* --input with no, one or two values; the standard input holds the line s
\* or the document A, <p/> standing for its text.
DocumentA == Document(<<Stmt("WRITE", <<Arg("string", <<65>>)>>)>>, "plain")
DocumentB ==
    Document(<<Stmt("DEFVAR", <<GFd>>), Stmt("READ", <<GFd, Arg("type", txtString)>>),
               Stmt("WRITE", <<Arg("string", <<66>>)>>), Stmt("WRITE", <<GFd>>)>>, "plain")
FileOne == <<<<49, 10>>>>
FileTwo == <<<<50, 10>>>>
Options ==
    {Option("source", v) : v \in {<<>>, <<DocumentA>>, <<DocumentB>>, <<DocumentA, DocumentB>>}}
    \cup {Option("input", v) : v \in {<<>>, <<FileOne>>, <<FileTwo>>, <<FileOne, FileTwo>>}}
CommandLines == UNION {[1..n -> Options] : n \in 0..3}
StandardInputs ==
    {Stdin("text", <<>>, <<<<115, 10>>>>), Stdin("xml", DocumentA, <<<<60, 112, 47, 62, 10>>>>)}

\* The runs of the interpreter that are explored: a command line and a
\* standard input.
Runs ==
    {Run(s, "plain", NoInput) :
        s \in LiteralPrograms \cup VariablePrograms \cup StackPrograms \cup JumpPrograms
              \cup PushPopPrograms \cup FramePrograms \cup DivisionPrograms
              \cup EscapePrograms \cup MalformedPrograms \cup ExitPrograms
              \cup SameNamePrograms \cup FrameAccessPrograms \cup SetcharPrograms
              \cup IndexPrograms \cup TypePrograms \cup MovePrograms
              \cup BadLiteralPrograms}
    \cup {Run(s, "reversed", NoInput) : s \in ControlPrograms}
    \cup {Run(s, layout, NoInput) : s \in LongPrograms, layout \in Layouts}
    \cup {Run(s, "gaps", inp) : s \in ReadPrograms, inp \in Inputs}
    \cup {Run(s, "plain", Input(file, OneLine)) : s \in ReadOperandPrograms, file \in BOOLEAN}
    \cup {Run(s, layout, Input(TRUE, OneLine)) : s \in LabelledTailPrograms, layout \in Layouts}
    \cup {Run(ReadWriteTwice, "plain", Input(file, lines)) : file \in BOOLEAN, lines \in SomeLines}
    \cup {RunOf(d, NoInput) : d \in OrderDocuments}
    \cup {RunOf(d, Input(TRUE, OneLine)) : d \in ElementDocuments}
    \cup {[argv |-> cmd, stdin |-> in] : cmd \in CommandLines, in \in StandardInputs}

\* ------------------------------------------------------- the transitions

\* The interpreter's attributes as one record, the form the handlers take.
Machine ==
    [gf |-> global_frame, tf |-> temporary_frame, fs |-> frame_stack, ds |-> data_stack,
     cs |-> call_stack, cur |-> current, inp |-> input, out |-> stdout,
     halted |-> halted, code |-> exit_code]

\* instruction = next(self.current) in Interpret.run
Fetched == instructions[NextIndex(current) + 1]
Advanced == [Machine EXCEPT !.cur = [current EXCEPT !.pos = @ + 1]]

\* The last instruction executed, -1 when none or when the run has finished.
Recent(h) == IF Len(h) > 3 THEN SubSeq(h, Len(h) - 2, Len(h)) ELSE h
Last == IF history = <<>> THEN -1 ELSE history[Len(history)]
LastIns == instructions[Last + 1]
LastOp == IF Last = -1 THEN "" ELSE LastIns.opcode

NoPush == [state |-> "none", var |-> NewVariable(<<>>)]
NoLog == [stack |-> <<>>, popped |-> EmptyFrame]
StackOpcodes == StackBinary \cup StackUnary \cup StackJumps \cup {"PUSHS", "POPS"}
\* The slot a var operand names, in a machine where it exists.
OperandRef(a) == Ref(Split(a.text)[1], Split(a.text)[2])
WritesLF(ins, m) ==
    /\ Len(ins.args) > 0 /\ ins.args[1].type = "var"
    /\ Len(Split(ins.args[1].text)) = 2 /\ Split(ins.args[1].text)[1] = txtLF
    /\ Len(m.fs) > 0 /\ Split(ins.args[1].text)[2] \in DOMAIN m.fs[Len(m.fs)]

Init ==
    \E run \in Runs :
        LET loaded == Construct(run.argv, run.stdin)
        IN  /\ argv = run.argv
            /\ xml = loaded.doc
            /\ instructions = loaded.instructions
            /\ labels = loaded.labels
            /\ input = loaded.input
            /\ current = Iter(0)
            /\ call_stack = <<>>
            /\ data_stack = <<>>
            /\ frame_stack = <<>>
            /\ temporary_frame = NoFrame
            /\ global_frame = EmptyFrame
            /\ stdout = <<>>
            /\ halted = (loaded.err # 0)
            /\ exit_code = loaded.err
            /\ before = [gf |-> EmptyFrame, tf |-> NoFrame, fs |-> <<>>, ds |-> <<>>,
                         cs |-> <<>>, cur |-> Iter(0), inp |-> loaded.input, out |-> <<>>,
                         halted |-> (loaded.err # 0), code |-> loaded.err]
            /\ history = <<>>
            /\ call_sites = <<>>
            /\ matched_call = -1
            /\ pushed = NoPush
            /\ lf_log = NoLog

\* The history variables after instruction ins took the machine to m.
NextCallSites(ins, m) ==
    IF ins.opcode = "CALL" /\ ~m.halted THEN Append(call_sites, ins.index)
    ELSE IF ins.opcode = "RETURN" /\ ~m.halted /\ call_sites # <<>>
    THEN SubSeq(call_sites, 1, Len(call_sites) - 1)
    ELSE call_sites
NextMatchedCall(ins, m) ==
    IF ins.opcode = "RETURN" /\ ~m.halted /\ call_sites # <<>>
    THEN call_sites[Len(call_sites)]
    ELSE -1
\* The type and value of the operand of PUSHS at the moment of the push: of
\* the slot a variable operand names, else of the literal as pushed.
PushedOperand(ins, m) ==
    IF ins.args[1].type = "var"
    THEN Variable(Deref(Machine, OperandRef(ins.args[1])).value, <<>>,
                  Deref(Machine, OperandRef(ins.args[1])).type)
    ELSE Variable(m.ds[Len(m.ds)].value, <<>>, m.ds[Len(m.ds)].type)
NextPushed(ins, m) ==
    IF m.halted THEN NoPush
    ELSE IF ins.opcode = "PUSHS" THEN [state |-> "pending", var |-> PushedOperand(ins, m)]
    ELSE IF ins.opcode = "POPS" /\ pushed.state = "pending"
    THEN [pushed EXCEPT !.state = "popped"]
    ELSE IF ins.opcode \in StackOpcodes \/ pushed.state = "popped" THEN NoPush
    ELSE pushed
NextLog(ins, m) ==
    LET top == Len(lf_log.stack)
    IN  IF m.halted THEN lf_log
        ELSE IF ins.opcode = "PUSHFRAME"
        THEN [stack |-> Append(lf_log.stack, temporary_frame.frame), popped |-> EmptyFrame]
        ELSE IF ins.opcode = "POPFRAME" /\ top > 0
        THEN [stack |-> SubSeq(lf_log.stack, 1, top - 1), popped |-> lf_log.stack[top]]
        ELSE IF WritesLF(ins, m) /\ top > 0
        THEN LET name == Split(ins.args[1].text)[2]
                 slot == m.fs[Len(m.fs)][name]
             IN  [stack |-> [lf_log.stack EXCEPT ![top] =
                                IF name \in DOMAIN @ THEN SetSlot(@, name, slot)
                                ELSE AddSlot(@, name, slot)],
                  popped |-> EmptyFrame]
        ELSE [lf_log EXCEPT !.popped = EmptyFrame]

\* The assignments an instruction's handler leaves behind.
Commit(ins, m) ==
    /\ Len(m.cs) <= MaxDepth /\ Len(m.ds) <= MaxDepth /\ Len(m.fs) <= MaxDepth
    /\ global_frame' = m.gf
    /\ temporary_frame' = m.tf
    /\ frame_stack' = m.fs
    /\ data_stack' = m.ds
    /\ call_stack' = m.cs
    /\ current' = m.cur
    /\ input' = m.inp
    /\ stdout' = m.out
    /\ halted' = m.halted
    /\ exit_code' = m.code
    /\ before' = Machine
    /\ history' = Recent(Append(history, ins.index))
    /\ call_sites' = NextCallSites(ins, m)
    /\ matched_call' = NextMatchedCall(ins, m)
    /\ pushed' = NextPushed(ins, m)
    /\ lf_log' = NextLog(ins, m)
    /\ UNCHANGED <<argv, xml, instructions, labels>>

\* One turn of the loop of Interpret.run on an instruction of this opcode.
Execute(opcode, m) ==
    /\ ~halted
    /\ HasNext(current)
    /\ Fetched.opcode = opcode
    /\ Commit(Fetched, m)

DoMove == Execute("MOVE", move(Advanced, Fetched))
DoCreateframe == Execute("CREATEFRAME", createframe(Advanced, Fetched))
DoPushframe == Execute("PUSHFRAME", pushframe(Advanced, Fetched))
DoPopframe == Execute("POPFRAME", popframe(Advanced, Fetched))
DoDefvar == Execute("DEFVAR", defvar(Advanced, Fetched))
DoCall == Execute("CALL", call(Advanced, Fetched))
DoReturn == Execute("RETURN", return(Advanced, Fetched))
DoPushs == Execute("PUSHS", pushs(Advanced, Fetched))
DoPops == Execute("POPS", pops(Advanced, Fetched))
DoClears == Execute("CLEARS", clears(Advanced, Fetched))
DoAdd == Execute("ADD", add(Advanced, Fetched))
DoAdds == Execute("ADDS", adds(Advanced, Fetched))
DoSub == Execute("SUB", sub(Advanced, Fetched))
DoSubs == Execute("SUBS", subs(Advanced, Fetched))
DoMul == Execute("MUL", mul(Advanced, Fetched))
DoMuls == Execute("MULS", muls(Advanced, Fetched))
DoDiv == Execute("DIV", div(Advanced, Fetched))
DoDivs == Execute("DIVS", divs(Advanced, Fetched))
DoIdiv == Execute("IDIV", idiv(Advanced, Fetched))
DoIdivs == Execute("IDIVS", idivs(Advanced, Fetched))
DoLt == Execute("LT", lt(Advanced, Fetched))
DoLts == Execute("LTS", lts(Advanced, Fetched))
DoGt == Execute("GT", gt(Advanced, Fetched))
DoGts == Execute("GTS", gts(Advanced, Fetched))
DoEq == Execute("EQ", eq(Advanced, Fetched))
DoEqs == Execute("EQS", eqs(Advanced, Fetched))
DoAnd == Execute("AND", and(Advanced, Fetched))
DoAnds == Execute("ANDS", ands(Advanced, Fetched))
DoOr == Execute("OR", or(Advanced, Fetched))
DoOrs == Execute("ORS", ors(Advanced, Fetched))
DoNot == Execute("NOT", not(Advanced, Fetched))
DoNots == Execute("NOTS", nots(Advanced, Fetched))
DoInt2char == Execute("INT2CHAR", int2char(Advanced, Fetched))
DoInt2chars == Execute("INT2CHARS", int2chars(Advanced, Fetched))
DoFloat2int == Execute("FLOAT2INT", float2int(Advanced, Fetched))
DoFloat2ints == Execute("FLOAT2INTS", float2ints(Advanced, Fetched))
DoInt2float == Execute("INT2FLOAT", int2float(Advanced, Fetched))
DoInt2floats == Execute("INT2FLOATS", int2floats(Advanced, Fetched))
DoStri2int == Execute("STRI2INT", stri2int(Advanced, Fetched))
DoStri2ints == Execute("STRI2INTS", stri2ints(Advanced, Fetched))
DoRead == Execute("READ", read(Advanced, Fetched))
DoWrite == Execute("WRITE", write(Advanced, Fetched))
DoConcat == Execute("CONCAT", concat(Advanced, Fetched))
DoStrlen == Execute("STRLEN", strlen(Advanced, Fetched))
DoGetchar == Execute("GETCHAR", getchar(Advanced, Fetched))
DoSetchar == Execute("SETCHAR", setchar(Advanced, Fetched))
DoType == Execute("TYPE", type(Advanced, Fetched))
DoLabel == Execute("LABEL", label(Advanced, Fetched))
DoJump == Execute("JUMP", jump(Advanced, Fetched))
DoJumpifeq == Execute("JUMPIFEQ", jumpifeq(Advanced, Fetched))
DoJumpifeqs == Execute("JUMPIFEQS", jumpifeqs(Advanced, Fetched))
DoJumpifneq == Execute("JUMPIFNEQ", jumpifneq(Advanced, Fetched))
DoJumpifneqs == Execute("JUMPIFNEQS", jumpifneqs(Advanced, Fetched))
DoExit == Execute("EXIT", exit(Advanced, Fetched))
DoDprint == Execute("DPRINT", dprint(Advanced, Fetched))
DoBreak == Execute("BREAK", break(Advanced, Fetched))

\* next(self.current) raises StopIteration: run() returns, status 0.
Finish ==
    /\ ~halted
    /\ ~HasNext(current)
    /\ halted' = TRUE
    /\ exit_code' = 0
    /\ before' = Machine
    /\ history' = Recent(Append(history, -1))
    /\ matched_call' = -1
    /\ pushed' = NoPush
    /\ lf_log' = [lf_log EXCEPT !.popped = EmptyFrame]
    /\ UNCHANGED <<argv, xml, instructions, labels, input, current, call_stack, data_stack, frame_stack,
                   temporary_frame, global_frame, stdout, call_sites>>

Next ==
    \/ DoMove
    \/ DoCreateframe
    \/ DoPushframe
    \/ DoPopframe
    \/ DoDefvar
    \/ DoCall
    \/ DoReturn
    \/ DoPushs
    \/ DoPops
    \/ DoClears
    \/ DoAdd
    \/ DoAdds
    \/ DoSub
    \/ DoSubs
    \/ DoMul
    \/ DoMuls
    \/ DoDiv
    \/ DoDivs
    \/ DoIdiv
    \/ DoIdivs
    \/ DoLt
    \/ DoLts
    \/ DoGt
    \/ DoGts
    \/ DoEq
    \/ DoEqs
    \/ DoAnd
    \/ DoAnds
    \/ DoOr
    \/ DoOrs
    \/ DoNot
    \/ DoNots
    \/ DoInt2char
    \/ DoInt2chars
    \/ DoFloat2int
    \/ DoFloat2ints
    \/ DoInt2float
    \/ DoInt2floats
    \/ DoStri2int
    \/ DoStri2ints
    \/ DoRead
    \/ DoWrite
    \/ DoConcat
    \/ DoStrlen
    \/ DoGetchar
    \/ DoSetchar
    \/ DoType
    \/ DoLabel
    \/ DoJump
    \/ DoJumpifeq
    \/ DoJumpifeqs
    \/ DoJumpifneq
    \/ DoJumpifneqs
    \/ DoExit
    \/ DoDprint
    \/ DoBreak
    \/ Finish

vars == <<argv, xml, instructions, labels, input, current, call_stack, data_stack, frame_stack,
          temporary_frame, global_frame, stdout, halted, exit_code, before, history,
          call_sites, matched_call, pushed, lf_log>>

Spec == Init /\ [][Next]_vars

\* ------------------------------------------------------------- properties

\* C1: after a RETURN that matches a CALL, whatever calls and jumps ran in
\* between, the next instruction is the one that follows that CALL in the
\* sorted instruction list; when the CALL was the last instruction there is
\* no next instruction and the program ends.
C1_ReturnResumesAfterCall ==
    matched_call # -1 =>
        /\ ~halted
        /\ NextIndex(current) = matched_call + 1
        /\ HasNext(current) <=> matched_call + 1 < Len(instructions)
        /\ Len(call_stack) = Len(call_sites)
\* A RETURN of a nested call, reached through a taken conditional jump.
C1_NestedReturn ==
    /\ matched_call # -1
    /\ call_sites # <<>>
    /\ Len(history) = 3
    /\ instructions[history[1] + 1].opcode \in {"JUMPIFEQ", "JUMPIFNEQS"}
\* A RETURN to a CALL that is the last instruction.
C1_ReturnToLastCall == matched_call # -1 /\ matched_call + 1 = Len(instructions)

\* C2: the value POPS stores is the type and value the operand of the PUSHS
\* had when it was pushed, also when the pushed variable was assigned again
\* between the PUSHS and the POPS.
C2_PopsYieldsPushedCopy ==
    pushed.state = "popped" =>
        /\ Deref(Machine, OperandRef(LastIns.args[1])).type = pushed.var.type
        /\ Deref(Machine, OperandRef(LastIns.args[1])).value = pushed.var.value
\* GF@x was pushed and popped into GF@y after GF@x got another type.
C2_PoppedAfterReassignment ==
    /\ pushed.state = "popped"
    /\ LastIns.args[1] = GFy
    /\ nameX \in DOMAIN global_frame
    /\ global_frame[nameX].type # pushed.var.type
    /\ global_frame[nameX].type # ""

\* C3: a POPFRAME that succeeds makes the frame its PUSHFRAME pushed the
\* temporary frame again, holding what it held when pushed and every slot
\* defined or assigned through LF@ since, with the same type and value; the
\* frame stack is one shorter.
C3_PopframeRestoresFrame ==
    (LastOp = "POPFRAME" /\ ~halted) =>
        /\ temporary_frame.present
        /\ temporary_frame.frame = lf_log.popped
        /\ Len(frame_stack) = Len(before.fs) - 1
        /\ Len(frame_stack) = Len(lf_log.stack)
\* A frame pushed empty comes back with a slot defined and assigned via LF@.
C3_SlotSeenThroughTF ==
    /\ LastOp = "POPFRAME" /\ ~halted
    /\ nameA \in DOMAIN temporary_frame.frame
    /\ temporary_frame.frame[nameA].type = "int"
    /\ nameA \notin DOMAIN before.tf.frame

\* C4: when an instruction ends the run with status 53 or 56, every frame,
\* the data stack, the call stack and the temporary frame are what they
\* were before the instruction.
C4_ErrorLeavesStateUntouched ==
    (halted /\ Last # -1 /\ exit_code \in {Invalid_type, Missing_value}) =>
        /\ global_frame = before.gf
        /\ frame_stack = before.fs
        /\ temporary_frame = before.tf
        /\ data_stack = before.ds
        /\ call_stack = before.cs

\* The source operands of an instruction and the types its handler passes
\* to __instruction_args as options.
C5_Sources(ins) == IF ins.opcode \in SourceOnly THEN 1..Len(ins.args) ELSE 2..Len(ins.args)
C5_Mask(opcode) ==
    CASE opcode \in {"ADD", "SUB", "MUL", "DIV"} -> NumTypes
      [] opcode \in {"IDIV", "INT2CHAR", "INT2FLOAT", "EXIT"} -> {"int"}
      [] opcode \in {"LT", "GT"} -> OrdTypes
      [] opcode \in {"AND", "OR", "NOT"} -> {"bool"}
      [] opcode = "FLOAT2INT" -> {"float"}
      [] opcode \in {"STRI2INT", "GETCHAR", "SETCHAR"} -> StrIntTypes
      [] opcode \in {"CONCAT", "STRLEN"} -> {"string"}
      [] OTHER -> AllTypes
\* Operand a names a slot that exists in machine m; the slot is uninitialized.
C5_IsSlot(m, a) ==
    /\ a.type = "var"
    /\ Len(Split(a.text)) = 2
    /\ GetFrameError(m, Split(a.text)[1]) = 0
    /\ Split(a.text)[2] \in DOMAIN GetFrame(m, Split(a.text)[1])
C5_Uninitialized(m, a) == C5_IsSlot(m, a) /\ Deref(m, OperandRef(a)).type = ""
\* Instruction ins, run in machine m, reads an uninitialized slot as a source
\* operand: its opcode is not TYPE or READ, its label, if it has one, is
\* defined, its destination, if it has one, exists, and the source operands
\* before the slot are literals of a type the opcode takes.
C5_ReadsUninitialized(ins, m) ==
    /\ ins.opcode \in ((RegisterBinary \cup RegisterUnary \cup SourceOnly \cup RegisterJumps)
                          \ {"TYPE", "READ"})
    /\ ins.opcode \in RegisterJumps => ins.args[1].text \in DOMAIN labels
    /\ ins.opcode \in RegisterBinary \cup RegisterUnary => C5_IsSlot(m, ins.args[1])
    /\ \E k \in C5_Sources(ins) :
          /\ C5_Uninitialized(m, ins.args[k])
          /\ \A j \in C5_Sources(ins) : j < k => ins.args[j].type \in C5_Mask(ins.opcode)
\* The slot called name of frame f was uninitialized and is initialized in g.
C5_Initialized(f, g, name) ==
    name \in DOMAIN f /\ name \in DOMAIN g /\ f[name].type = "" /\ g[name].type # ""

\* C5: DEFVAR creates the slot uninitialized; an uninitialized slot gets a
\* type only from an instruction that has it as its destination; and an
\* instruction other than TYPE and READ that reads an uninitialized slot as
\* a source operand ends the run with status 56, whatever types it takes.
C5_UninitializedUntilAssigned ==
    /\ (LastOp = "DEFVAR" /\ ~halted) =>
          /\ ~C5_IsSlot(before, LastIns.args[1])
          /\ C5_Uninitialized(Machine, LastIns.args[1])
          /\ Deref(Machine, OperandRef(LastIns.args[1])).value = PyNone
    /\ \A name \in DOMAIN before.gf :
          (~halted /\ C5_Initialized(before.gf, global_frame, name)) =>
              /\ LastIns.args[1] = VarArg(txtGF, name)
              /\ LastOp \notin SourceOnly \cup {"DEFVAR"}
    /\ (~halted /\ Len(before.fs) > 0 /\ Len(frame_stack) = Len(before.fs)) =>
          \A name \in DOMAIN before.fs[Len(before.fs)] :
              C5_Initialized(before.fs[Len(before.fs)], frame_stack[Len(frame_stack)], name) =>
                  /\ LastIns.args[1] = VarArg(txtLF, name)
                  /\ LastOp \notin SourceOnly \cup {"DEFVAR"}
    /\ (Last # -1 /\ C5_ReadsUninitialized(LastIns, before)) =>
          halted /\ exit_code = Missing_value
\* CONCAT, which takes strings only, with a string literal and then an
\* uninitialized slot as its sources.
C5_UninitializedSecondSource ==
    /\ LastOp = "CONCAT"
    /\ C5_ReadsUninitialized(LastIns, before)
    /\ LastIns.args[2].type = "string"
\* A slot that DEFVAR created is assigned through LF@.
C5_AssignedLater ==
    /\ LastOp = "MOVE" /\ ~halted /\ Len(before.fs) > 0
    /\ C5_Uninitialized(before, LastIns.args[1])

\* The last instruction transferred control: run() draws the next
\* instruction from a new iterator.
C6_Transferred ==
    /\ LastOp \in {"JUMP", "CALL"} \cup RegisterJumps \cup StackJumps
    /\ ~halted
    /\ current.pos = 0
\* The LABEL instructions that define the label of instruction ins.
C6_Defining(ins) ==
    {j \in 1..Len(instructions) :
        instructions[j].opcode = "LABEL" /\ instructions[j].args[1].text = ins.args[1].text}

\* C6: after a JUMP, a CALL or a conditional jump that is taken, the next
\* instruction executed is the one LABEL instruction that defines the label,
\* at its place in the instruction list sorted by order.
C6_JumpLandsOnLabel ==
    /\ (LastOp \in {"JUMP", "CALL"} /\ ~halted) => current.pos = 0
    /\ C6_Transferred =>
          /\ HasNext(current)
          /\ C6_Defining(LastIns) = {NextIndex(current) + 1}
          /\ \A j \in 1..Len(instructions) : instructions[j].index = j - 1
          /\ \A j \in 1..(Len(instructions) - 1) :
                ParseInt(instructions[j].order).n < ParseInt(instructions[j + 1].order).n
\* A conditional jump on the data stack is taken in a program whose
\* instructions were written in reverse order.
C6_TakenInReversedDocument ==
    /\ C6_Transferred
    /\ LastOp \in StackJumps
    /\ instructions[1].order = IntText(5)

\* The two PUSHS and the stack opcode that were executed last, one after
\* the other, and the register instruction on the operands of the two PUSHS
\* with a new variable GF@e as its destination.
C7_Opcodes == StackBinary
C7_Case ==
    /\ LastOp \in C7_Opcodes
    /\ Len(history) = 3
    /\ history[2] = history[1] + 1 /\ history[3] = history[2] + 1
    /\ instructions[history[1] + 1].opcode = "PUSHS"
    /\ instructions[history[2] + 1].opcode = "PUSHS"
    /\ nameE \notin DOMAIN before.gf
C7_Machine == [before EXCEPT !.gf = AddSlot(before.gf, nameE, NewVariable(nameE))]
C7_Instruction(opcode) ==
    [opcode |-> opcode,
     args |-> <<VarArg(txtGF, nameE), instructions[history[1] + 1].args[1],
                instructions[history[2] + 1].args[1]>>,
     index |-> Last, order |-> LastIns.order]
C7_Register ==
    CASE LastOp = "ADDS" -> add(C7_Machine, C7_Instruction("ADD"))
      [] LastOp = "SUBS" -> sub(C7_Machine, C7_Instruction("SUB"))
      [] LastOp = "MULS" -> mul(C7_Machine, C7_Instruction("MUL"))
      [] LastOp = "IDIVS" -> idiv(C7_Machine, C7_Instruction("IDIV"))
      [] LastOp = "DIVS" -> div(C7_Machine, C7_Instruction("DIV"))
      [] LastOp = "LTS" -> lt(C7_Machine, C7_Instruction("LT"))
      [] LastOp = "GTS" -> gt(C7_Machine, C7_Instruction("GT"))
      [] LastOp = "EQS" -> eq(C7_Machine, C7_Instruction("EQ"))
      [] LastOp = "ANDS" -> and(C7_Machine, C7_Instruction("AND"))
      [] LastOp = "ORS" -> or(C7_Machine, C7_Instruction("OR"))
      [] LastOp = "STRI2INTS" -> stri2int(C7_Machine, C7_Instruction("STRI2INT"))
\* The stack opcode left what the register instruction leaves in r: the same
\* exit status, or its result on the stack in the place of the two operands.
C7_Agrees(r) ==
    IF r.halted THEN halted /\ exit_code = r.code
    ELSE /\ ~halted
         /\ Len(data_stack) = Len(before.ds) - 1
         /\ SubSeq(data_stack, 1, Len(data_stack) - 1) = SubSeq(before.ds, 1, Len(before.ds) - 2)
         /\ data_stack[Len(data_stack)].type = r.gf[nameE].type
         /\ data_stack[Len(data_stack)].value = r.gf[nameE].value

\* C7: PUSHS a; PUSHS b; OPS pushes what OP d, a, b stores in d, with a the
\* left and b the right operand and the stack below them unchanged, or ends
\* the run with the exit status of OP d, a, b.
C7_StackMatchesRegister == C7_Case => C7_Agrees(C7_Register)
\* SUBS, where the order of the operands shows, left a result on the stack
\* above an entry pushed earlier.
C7_SubsOnDistinctOperands ==
    /\ C7_Case /\ LastOp = "SUBS" /\ ~halted
    /\ Len(data_stack) = 2
    /\ data_stack[2].value = PyInt(-1)
\* DIVS of an int by zero ends the run as DIV does.
C7_DivsByZero ==
    /\ C7_Case /\ LastOp = "DIVS" /\ halted /\ exit_code = Invalid_value

\* The source operands of the last instruction as the machine before it
\* resolves them, every type allowed.
C8_Source(k) == ResolveSource(before, LastIns.args[k], AllTypes, FALSE)
C8_Value(k) == ArgVar(before, C8_Source(k).opd)
C8_Case ==
    /\ LastOp \in RegisterJumps
    /\ LastIns.args[1].text \in DOMAIN labels
    /\ C8_Source(2).err = 0 /\ C8_Source(3).err = 0
\* Same variant and equal values, two Nil being equal; the variants differ
\* and neither is Nil.
C8_Equal(a, b) == a.type = b.type /\ (a.type = "nil" \/ a.value = b.value)
C8_Incomparable(a, b) == a.type # b.type /\ a.type # "nil" /\ b.type # "nil"
C8_Jumped == ~halted /\ current.pos = 0
C8_Law(a, b) ==
    IF C8_Incomparable(a, b) THEN halted /\ exit_code = Invalid_type
    ELSE /\ ~halted
         /\ LastOp = "JUMPIFEQ" => (C8_Jumped <=> C8_Equal(a, b))
         /\ LastOp = "JUMPIFNEQ" => (C8_Jumped <=> ~C8_Equal(a, b))

\* C8: JUMPIFEQ jumps exactly when its operands have the same variant and
\* equal values, two Nil operands being equal whatever their text;
\* JUMPIFNEQ jumps exactly when they have the same variant and different
\* values or exactly one is Nil; operands of different variants, neither
\* Nil, end the run with status 53.
C8_JumpsOnVariantAndValue == C8_Case => C8_Law(C8_Value(2), C8_Value(3))

C9_Case ==
    /\ LastOp = "EQ"
    /\ C5_IsSlot(before, LastIns.args[1])
    /\ C8_Source(2).err = 0 /\ C8_Source(3).err = 0
C9_Stored(b) ==
    /\ ~halted
    /\ Deref(Machine, OperandRef(LastIns.args[1])).type = "bool"
    /\ Deref(Machine, OperandRef(LastIns.args[1])).value = PyBool(b)
C9_Law(a, b) ==
    IF a.type = "nil" /\ b.type = "nil" THEN C9_Stored(TRUE)
    ELSE IF a.type = "nil" \/ b.type = "nil" THEN C9_Stored(FALSE)
    ELSE IF a.type = b.type THEN C9_Stored(a.value = b.value)
    ELSE halted /\ exit_code = Invalid_type

\* C9: EQ stores Bool true when both operands are Nil, Bool false when
\* exactly one is, the equality of the values when they have the same
\* variant, and ends the run with status 53 otherwise, whichever variables
\* and literals the operands are.
C9_EqByVariant == C9_Case => C9_Law(C8_Value(2), C8_Value(3))

C10_Case ==
    /\ LastOp \in {"LT", "GT"}
    /\ C5_IsSlot(before, LastIns.args[1])
    /\ C8_Source(2).err = 0 /\ C8_Source(3).err = 0
\* s sorts before t: they differ first at a place where s has ended or
\* holds the lower code point.
C10_Lexicographic(s, t) ==
    \E i \in 1..Len(t) :
        /\ \A j \in 1..(i - 1) : j <= Len(s) /\ s[j] = t[j]
        /\ i > Len(s) \/ s[i] < t[i]
C10_Less(a, b) ==
    CASE a.type = "string" -> C10_Lexicographic(a.value.s, b.value.s)
      [] a.type = "bool" -> a.value = PyBool(FALSE) /\ b.value = PyBool(TRUE)
      [] OTHER -> a.value.n * b.value.d < b.value.n * a.value.d
C10_Law(a, b) ==
    IF a.type = "nil" \/ b.type = "nil" \/ a.type # b.type
    THEN halted /\ exit_code = Invalid_type
    ELSE C9_Stored(IF LastOp = "LT" THEN C10_Less(a, b) ELSE C10_Less(b, a))

\* C10: LT and GT end the run with status 53 when an operand is Nil or the
\* operands have different variants; otherwise they store a Bool: the
\* order of the numbers, false before true, strings in lexicographic order.
C10_OrderWithinVariant == C10_Case => C10_Law(C8_Value(2), C8_Value(3))
\* LT found the string a to sort before the string written \098.
C10_StringsCompared ==
    /\ C10_Case /\ LastOp = "LT"
    /\ LastIns.args[2] = Arg("string", <<97>>)
    /\ LastIns.args[3] = Arg("string", <<92, 48, 57, 56>>)
    /\ C9_Stored(TRUE)
\* GT found true to be greater than false.
C10_BoolsCompared ==
    /\ C10_Case /\ LastOp = "GT"
    /\ LastIns.args[2] = Arg("bool", txtTrue)
    /\ LastIns.args[3] = Arg("bool", txtFalse)
    /\ C9_Stored(TRUE)

C11_Case ==
    /\ LastOp \in {"ADD", "SUB", "MUL"}
    /\ C5_IsSlot(before, LastIns.args[1])
    /\ C8_Source(2).err = 0 /\ C8_Source(3).err = 0
\* v is the sum, the difference or the product of x and y, as fractions.
C11_Arithmetic(v, x, y) ==
    CASE LastOp = "ADD" -> v.n * x.d * y.d = (x.n * y.d + y.n * x.d) * v.d
      [] LastOp = "SUB" -> v.n * x.d * y.d = (x.n * y.d - y.n * x.d) * v.d
      [] OTHER -> v.n * x.d * y.d = x.n * y.n * v.d
C11_Stored(d, a, b) ==
    /\ ~halted
    /\ d.type = a.type
    /\ d.value.k = a.type
    /\ C11_Arithmetic(d.value, a.value, b.value)
C11_Law(a, b) ==
    IF a.type = b.type /\ a.type \in {"int", "float"}
    THEN C11_Stored(Deref(Machine, OperandRef(LastIns.args[1])), a, b)
    ELSE halted /\ exit_code = Invalid_type

\* C11: ADD, SUB and MUL end the run with status 53 unless both source
\* operands have the same variant and it is Int or Float (an Int with a
\* Float is rejected); otherwise the destination holds the sum, difference
\* or product, tagged with the operands' variant.
C11_ArithmeticWithinVariant == C11_Case => C11_Law(C8_Value(2), C8_Value(3))
\* ADD stored the Float 2.25 for the Floats 3.0 and -0.75.
C11_FloatsAdded ==
    /\ C11_Case /\ LastOp = "ADD" /\ ~halted
    /\ LastIns.args[2] = Arg("float", <<48, 120, 49, 46, 56, 112, 43, 49>>)
    /\ LastIns.args[3] = Arg("float", <<45, 48, 46, 55, 53>>)
    /\ Deref(Machine, OperandRef(LastIns.args[1])).type = "float"
    /\ Deref(Machine, OperandRef(LastIns.args[1])).value = PyFloat(9, 4)
\* ADD of an Int and a Float ended the run with status 53.
C11_MixedRejected ==
    /\ C11_Case /\ LastOp = "ADD"
    /\ C8_Value(2).type = "int" /\ C8_Value(3).type = "float"
    /\ halted /\ exit_code = Invalid_type

C12_Case ==
    /\ LastOp = "IDIV"
    /\ C5_IsSlot(before, LastIns.args[1])
    /\ C8_Source(2).err = 0 /\ C8_Source(3).err = 0
    /\ C8_Value(2).type = "int" /\ C8_Value(3).type = "int"
\* r is a remainder for the divisor b: of b's sign and smaller than it.
C12_Remainder(r, b) == IF b > 0 THEN 0 <= r /\ r < b ELSE b < r /\ r <= 0
C12_Quotient(d, a, b) ==
    /\ ~halted
    /\ d.type = "int" /\ d.value.k = "int"
    /\ C12_Remainder(a - b * d.value.n, b)
C12_Law(a, b) ==
    IF b = 0
    THEN /\ halted /\ exit_code = Invalid_value
         /\ global_frame = before.gf
    ELSE C12_Quotient(Deref(Machine, OperandRef(LastIns.args[1])), a, b)

\* C12: IDIV with Int operands ends the run with status 57, the
\* destination unchanged, when the divisor is 0; otherwise the destination
\* holds the Int d with a = b * d + r, r of the divisor's sign and smaller
\* than it in absolute value: the floor of the quotient.
C12_IdivIsFloor == C12_Case => C12_Law(C8_Value(2).value.n, C8_Value(3).value.n)
\* IDIV divided a negative Int by a positive one that does not divide it.
C12_NegativeByPositive ==
    /\ C12_Case /\ ~halted
    /\ C8_Value(2).value.n < 0 /\ C8_Value(3).value.n > 1
    /\ C8_Value(2).value.n % C8_Value(3).value.n # 0
\* IDIV by 0 into a destination that held Int 1.
C12_ZeroDivisorKeepsDestination ==
    /\ C12_Case /\ halted /\ exit_code = Invalid_value
    /\ Deref(Machine, OperandRef(LastIns.args[1])).type = "int"

\* The operands of the last DIV as the machine before it resolves them, and
\* of the last DIVS as the two top entries of the data stack before it.
C13_Case ==
    \/ /\ LastOp = "DIV"
       /\ C5_IsSlot(before, LastIns.args[1])
       /\ C8_Source(2).err = 0 /\ C8_Source(3).err = 0
    \/ LastOp = "DIVS" /\ Len(before.ds) >= 2
C13_Dividend ==
    IF LastOp = "DIV" THEN C8_Value(2) ELSE before.ds[Len(before.ds) - 1]
C13_Divisor ==
    IF LastOp = "DIV" THEN C8_Value(3) ELSE before.ds[Len(before.ds)]
C13_Law(a, b) ==
    /\ (a.type = "int" \/ b.type = "int") => (halted /\ exit_code = Invalid_type)
    /\ (a.type = "float" /\ b.type = "float" /\ b.value.n = 0) =>
            (halted /\ exit_code = Invalid_value)

\* C13: DIV and DIVS end the run with status 53 when either operand is an
\* Int, two Ints included, and with status 57 for two Floats and a zero
\* divisor.
C13_DivRequiresFloats == C13_Case => C13_Law(C13_Dividend, C13_Divisor)

\* The last instruction was READ into an existing slot with a type token.
C14_Case ==
    /\ LastOp = "READ"
    /\ C5_IsSlot(before, LastIns.args[1])
    /\ LastIns.args[2] \in TypeArgs
\* The input was at its end, or its next line was empty.
C14_NothingToRead(inp) == inp.lines = <<>> \/ Head(inp.lines) = <<10>>
C14_BoundNil ==
    /\ ~halted
    /\ Deref(Machine, OperandRef(LastIns.args[1])).type = "nil"

\* C14: READ binds Nil to its destination whenever the input is at its end
\* or the line read is empty, for each of the type tokens int, string, bool
\* and float, reading from a file and reading interactively.
C14_NilOnEmptyInput == (C14_Case /\ C14_NothingToRead(before.inp)) => C14_BoundNil

\* d holds a value of the variant the type token t names, or Nil, and the
\* instruction after the READ is the next one.
C15_Bound(d, t) ==
    /\ ~halted
    /\ TypeText(d.type) \in {t, txtNil}
    /\ NextIndex(current) = Last + 1

\* C15: READ with a type token never ends the run, whatever the input
\* holds: it binds a value of the variant the token names, or Nil, to its
\* destination and execution goes on with the next instruction.
C15_ReadNeverFails ==
    C14_Case => C15_Bound(Deref(Machine, OperandRef(LastIns.args[1])), LastIns.args[2].text)

\* The last instruction was READ into an existing slot with a literal of
\* kind int, string, bool, nil or float as its second operand.
C16_Case ==
    /\ LastOp = "READ"
    /\ C5_IsSlot(before, LastIns.args[1])
    /\ LastIns.args[2].type \in AllTypes

\* C16: READ whose second operand is a literal of kind int, string, bool,
\* nil or float ends the run with status 53, no line of the input consumed
\* and the destination unchanged.
C16_ReadRejectsLiterals ==
    C16_Case =>
        /\ halted /\ exit_code = Invalid_type
        /\ input = before.inp
        /\ global_frame = before.gf

\* The last instruction was WRITE of an operand that holds a String.
C17_Case ==
    /\ LastOp = "WRITE"
    /\ C8_Source(1).err = 0
    /\ C8_Value(1).type = "string"

\* C17: WRITE of a String appends exactly the code points of the stored
\* value to the output: a stored backslash followed by three digits is
\* written as those four characters.
C17_WriteEmitsStoredString ==
    C17_Case => (~halted /\ stdout = before.out \o C8_Value(1).value.s)

\* Operand a is of kind var and its text is not <frame>@<name> with the
\* frame one of GF, LF, TF.
C18_Malformed(a) ==
    /\ a.type = "var"
    /\ Len(Split(a.text)) # 2 \/ ~KnownFrame(Split(a.text)[1])
\* The last instruction has such an operand, the operands before it naming
\* slots that exist.
C18_Case ==
    /\ Last # -1
    /\ \E k \in 1..Len(LastIns.args) :
           /\ C18_Malformed(LastIns.args[k])
           /\ \A j \in 1..(k - 1) : C5_IsSlot(before, LastIns.args[j])

\* C18: an operand of kind var whose text is not <frame>@<name> with the
\* frame one of GF, LF, TF ends the run with status 53, as the operand of
\* DEFVAR, as a destination and as a source.
C18_MalformedVarRejected == C18_Case => (halted /\ exit_code = Invalid_type)

\* The last instruction was EXIT of an operand that holds an Int.
C19_Case ==
    /\ LastOp = "EXIT"
    /\ C8_Source(1).err = 0
    /\ C8_Value(1).type = "int"
C19_Status(v) == IF 0 <= v /\ v <= 49 THEN v ELSE Invalid_value
\* A step that executes such an EXIT ends the run with the status and
\* writes nothing; no step is taken once an EXIT has ended the run.
C19_Step ==
    /\ C19_Case' =>
            /\ halted' /\ exit_code' = C19_Status(C8_Value(1).value.n)'
            /\ stdout' = stdout
    /\ ~(halted /\ LastOp = "EXIT")

\* C19: EXIT of an Int v ends the run with status v when 0 <= v <= 49 and
\* with status 57 otherwise; no instruction is executed after it and the
\* output stays as it was before it.
C19_ExitEndsRun == [][C19_Step]_vars
\* EXIT of 50 ended the run with status 57, after one WRITE and with a
\* WRITE left unexecuted.
C19_OutOfRange ==
    /\ C19_Case /\ C8_Value(1).value.n = 50
    /\ halted /\ exit_code = Invalid_value
    /\ stdout = <<97>>
    /\ HasNext(current)
\* EXIT of 49 ended the run with status 49.
C19_UpperEnd ==
    /\ C19_Case /\ halted /\ exit_code = 49
    /\ stdout = <<97>> /\ HasNext(current)

\* The frames of a machine.
C20_Frames(m) == <<m.gf, m.fs, m.tf>>
\* The last instruction was DEFVAR of <frame>@<name>, the frame one of GF,
\* LF, TF.
C20_Case == LastOp = "DEFVAR" /\ ~C18_Malformed(LastIns.args[1])
C20_NoFrame(tag) ==
    \/ tag = txtLF /\ before.fs = <<>>
    \/ tag = txtTF /\ ~before.tf.present
\* The frames are those before the DEFVAR with one more slot, uninitialized.
C20_Defined(tag, name) ==
    /\ ~halted
    /\ C20_Frames(Machine) =
           C20_Frames(PutFrame(before, tag, AddSlot(GetFrame(before, tag), name, NewVariable(name))))
C20_Law(tag, name) ==
    IF C20_NoFrame(tag) THEN halted /\ exit_code = Frame_not_found
    ELSE IF name \in DOMAIN GetFrame(before, tag)
    THEN /\ halted /\ exit_code = Semantic_error
         /\ C20_Frames(Machine) = C20_Frames(before)
    ELSE C20_Defined(tag, name)

\* C20: DEFVAR of a name the referenced frame already holds ends the run
\* with status 52, the slot keeping its type and value; DEFVAR on LF with an
\* empty frame stack or on TF without a temporary frame ends it with status
\* 55; otherwise the frame gains an uninitialized slot and the slots of the
\* same name in the other frames stay as they are.
C20_DefvarPerFrame ==
    C20_Case => C20_Law(Split(LastIns.args[1].text)[1], Split(LastIns.args[1].text)[2])
\* DEFVAR LF@a ended the run with status 52, LF@a still holding String a.
C20_RedefinedKeepsValue ==
    /\ C20_Case /\ LastIns.args[1] = LFa
    /\ halted /\ exit_code = Semantic_error
    /\ frame_stack # <<>>
    /\ nameA \in DOMAIN frame_stack[Len(frame_stack)]
    /\ frame_stack[Len(frame_stack)][nameA].type = "string"
\* DEFVAR TF@a made a fresh slot while GF@a held Int 1 and LF@a String a.
C20_SameNameThreeFrames ==
    /\ C20_Case /\ LastIns.args[1] = TFa /\ ~halted
    /\ temporary_frame.present /\ temporary_frame.frame[nameA].type = ""
    /\ nameA \in DOMAIN global_frame /\ global_frame[nameA].type = "int"
    /\ frame_stack # <<>>
    /\ nameA \in DOMAIN frame_stack[Len(frame_stack)]
    /\ frame_stack[Len(frame_stack)][nameA].type = "string"

\* Operand a names a slot of TF while there is no temporary frame, or of LF
\* while the frame stack is empty.
C21_MissingFrame(m, a) ==
    /\ a.type = "var" /\ Len(Split(a.text)) = 2
    /\ \/ Split(a.text)[1] = txtTF /\ ~m.tf.present
       \/ Split(a.text)[1] = txtLF /\ m.fs = <<>>
\* The last instruction had such an operand first, or right after a
\* destination that exists.
C21_Access ==
    /\ Last # -1 /\ Len(LastIns.args) > 0
    /\ \/ C21_MissingFrame(before, LastIns.args[1])
       \/ /\ Len(LastIns.args) > 1
          /\ C5_IsSlot(before, LastIns.args[1])
          /\ C21_MissingFrame(before, LastIns.args[2])
C21_FrameOpcodes == {"CREATEFRAME", "PUSHFRAME", "POPFRAME"}
C21_Step ==
    /\ (LastOp' \in {"CREATEFRAME", "POPFRAME"} /\ ~halted') => temporary_frame'.present
    /\ (LastOp' = "PUSHFRAME" /\ ~halted') => ~temporary_frame'.present
    /\ (LastOp' \notin C21_FrameOpcodes \/ halted') =>
            temporary_frame'.present = temporary_frame.present
    /\ (LastOp' = "PUSHFRAME" /\ ~temporary_frame.present) =>
            (halted' /\ exit_code' = Frame_not_found)
    /\ (LastOp' = "POPFRAME" /\ frame_stack = <<>>) =>
            (halted' /\ exit_code' = Frame_not_found)
    /\ C21_Access' => (halted' /\ exit_code' = Frame_not_found)

\* C21: the temporary frame is absent initially, present after every
\* CREATEFRAME and POPFRAME that completes, absent after every PUSHFRAME
\* that completes and changed by nothing else; PUSHFRAME without a
\* temporary frame, POPFRAME on an empty frame stack, an access to TF@
\* without a temporary frame and an access to LF@ on an empty frame stack
\* end the run with status 55.
C21_TemporaryFrameLifecycle == ~temporary_frame.present /\ [][C21_Step]_vars
\* DEFVAR TF@a ended the run with status 55 after CREATEFRAME and PUSHFRAME.
C21_AccessAfterPushframe ==
    /\ LastOp = "DEFVAR" /\ LastIns.args[1] = TFa
    /\ halted /\ exit_code = Frame_not_found
    /\ frame_stack # <<>>
\* TYPE of LF@a ended the run with status 55, the frame stack empty.
C21_SourceWithoutFrame ==
    /\ LastOp = "TYPE" /\ LastIns.args[2] = LFa
    /\ halted /\ exit_code = Frame_not_found
    /\ frame_stack = <<>>

\* Two LABEL instructions of the program define the same name.
C22_DefinedTwice ==
    \E i, j \in 1..Len(instructions) :
        /\ i < j
        /\ instructions[i].opcode = "LABEL" /\ instructions[j].opcode = "LABEL"
        /\ instructions[i].args[1].text = instructions[j].args[1].text

\* C22: a program in which two LABEL instructions define the same name
\* ends with status 52 when it is loaded: no instruction is executed,
\* nothing is written and no input is read.
C22_DuplicateLabelAtLoad ==
    C22_DefinedTwice =>
        /\ halted /\ exit_code = Semantic_error
        /\ history = <<>>
        /\ stdout = <<>>
        /\ input = before.inp
        /\ global_frame = EmptyFrame
\* The program that exits before its two LABEL a ended at load, the file
\* that --input names never opened.
C22_UnreachedDuplicate ==
    /\ C22_DefinedTwice
    /\ Len(instructions) = 6 /\ instructions[4].opcode = "EXIT"
    /\ halted /\ exit_code = Semantic_error
    /\ Stored(argv, "input").values = <<OneLine>>
    /\ input = NoInput

C23_Opcodes == {"JUMP", "CALL", "JUMPIFEQ", "JUMPIFNEQ", "JUMPIFEQS", "JUMPIFNEQS"}
\* The last instruction transfers control to a label that no LABEL
\* instruction of the program defines.
C23_Case ==
    /\ LastOp \in C23_Opcodes
    /\ \A i \in 1..Len(instructions) :
           instructions[i].opcode = "LABEL" =>
               instructions[i].args[1].text # LastIns.args[1].text

\* C23: JUMP, CALL, JUMPIFEQ, JUMPIFNEQ, JUMPIFEQS and JUMPIFNEQS to a
\* label that no LABEL instruction defines end the run with status 52, the
\* call stack and the data stack as they were before the instruction.
C23_UndefinedLabel ==
    C23_Case =>
        /\ halted /\ exit_code = Semantic_error
        /\ call_stack = before.cs
        /\ data_stack = before.ds
\* JUMPIFEQS to an undefined label left its entry on the data stack.
C23_StackKept ==
    /\ C23_Case /\ LastOp = "JUMPIFEQS"
    /\ halted /\ exit_code = Semantic_error
    /\ data_stack # <<>>
\* CALL of an undefined label inside a call left the call stack at one entry.
C23_CallPushesNothing ==
    /\ C23_Case /\ LastOp = "CALL"
    /\ halted /\ exit_code = Semantic_error
    /\ Len(call_stack) = 1

\* The number of data-stack entries a stack opcode takes.
C24_Needs(opcode) == IF opcode \in StackBinary \cup StackJumps THEN 2 ELSE 1
\* The last instruction was RETURN on an empty call stack, POPS into an
\* existing slot on an empty data stack, or a stack opcode (a jump to a
\* defined label) on fewer entries than it takes.
C24_Underflow ==
    \/ LastOp = "RETURN" /\ before.cs = <<>>
    \/ LastOp = "POPS" /\ C5_IsSlot(before, LastIns.args[1]) /\ before.ds = <<>>
    \/ /\ LastOp \in StackBinary \cup (StackUnary \ {"CLEARS"})
       /\ Len(before.ds) < C24_Needs(LastOp)
    \/ /\ LastOp \in StackJumps /\ ~C23_Case
       /\ Len(before.ds) < C24_Needs(LastOp)
\* The call stack grows by one with a CALL that completes, shrinks by one
\* with a RETURN that completes and keeps its depth otherwise.
C24_DepthChange ==
    IF LastOp = "CALL" /\ ~halted THEN 1
    ELSE IF LastOp = "RETURN" /\ ~halted THEN -1
    ELSE 0
C24_Step ==
    /\ C24_Underflow' => (halted' /\ exit_code' = Missing_value)
    /\ Len(call_stack') = Len(call_stack) + C24_DepthChange'

\* C24: RETURN on an empty call stack, POPS on an empty data stack and a
\* stack opcode on fewer data-stack entries than it takes end the run with
\* status 56; the depth of the call stack, 0 at the start, changes by +1
\* with each CALL and by -1 with each RETURN executed, and not otherwise.
C24_StacksNeverUnderflow == [][C24_Step]_vars


\* C25: a document in which two elements carry order attributes that denote
\* the same integer, spelled alike or not (1 and 01), is rejected at load:
\* the run is over with status 32 and no instruction was executed.
C25_SameOrder ==
    \E i, j \in 1..Len(xml) :
        /\ i # j
        /\ IsDigits(xml[i].order) /\ IsDigits(xml[j].order)
        /\ OrderOf(xml[i]) = OrderOf(xml[j])
C25_DuplicateOrderRejected ==
    C25_SameOrder => halted /\ exit_code = Invalid_XML_structure /\ history = <<>>


\* C26: a loaded program whose orders denote distinct integers and that holds
\* no JUMP, JUMPIF*, CALL, RETURN or EXIT holds every element of the document
\* and executes its instructions one after another from the first, each of
\* a greater order than the one before, whatever the document order and the
\* gaps; it ends with status 0 only once the last instruction was executed,
\* and then it does.
C26_Control ==
    {"JUMP", "JUMPIFEQ", "JUMPIFNEQ", "JUMPIFEQS", "JUMPIFNEQS", "CALL", "RETURN", "EXIT"}
C26_StraightLine ==
    /\ Len(instructions) = Len(xml)
    /\ \A k \in 1..Len(instructions) : instructions[k].opcode \notin C26_Control
    /\ \A i, j \in 1..Len(xml) : i # j => OrderOf(xml[i]) # OrderOf(xml[j])
C26_Step ==
    C26_StraightLine =>
        /\ \A i \in 1..Len(xml) : \E k \in 1..Len(instructions) :
               instructions[k].order = xml[i].order /\ instructions[k].opcode = xml[i].opcode
        /\ (halted' /\ exit_code' = 0) => Last' = -1
        /\ IF Last' # -1
           THEN /\ Last' = Last + 1
                /\ Last # -1 => OrderOf(instructions[Last + 1]) < OrderOf(instructions[Last' + 1])
           ELSE Last = Len(instructions) - 1 /\ halted' /\ exit_code' = 0
C26_AscendingOrderOnce == [][C26_Step]_vars
\* The document <WRITE a, order 2> <WRITE b, order 1> has run to its end: b
\* was written before a.
C26_ReversedDocumentDone ==
    /\ C26_StraightLine
    /\ Len(xml) = 2 /\ OrderOf(xml[1]) > OrderOf(xml[2])
    /\ halted /\ exit_code = 0 /\ history = <<0, 1, -1>>
    /\ stdout = <<98, 97>>


\* C27: when an element anywhere in the document has an unknown opcode, a
\* number of operands other than its opcode's, an order below 1 or operand
\* tags other than 1..n, the run is over with status 32 at load: nothing was
\* executed, nothing written, and the input was never opened.
C27_Tags(e) == {e.args[j].tag : j \in 1..Len(e.args)}
C27_Invalid(e) ==
    \/ e.opcode \notin Opcodes
    \/ e.opcode \in Opcodes /\ Len(e.args) # ArityOf(e.opcode)
    \/ IsDigits(e.order) /\ OrderOf(e) < 1
    \/ C27_Tags(e) # 1..Len(e.args)
C27_Case == \E i \in 1..Len(xml) : C27_Invalid(xml[i])
C27_ValidationPrecedesExecution ==
    C27_Case =>
        /\ halted /\ exit_code = Invalid_XML_structure
        /\ history = <<>> /\ instructions = <<>>
        /\ stdout = <<>>
        /\ input = NoInput
\* DEFVAR, READ and WRITE are followed in the document by a MOVE whose
\* operands are arg1 and arg3: the file --input names was never opened.
C27_LaterElementRejected ==
    /\ Len(xml) = 4 /\ xml[2].opcode = "READ" /\ xml[3].opcode = "WRITE"
    /\ ~C27_Invalid(xml[1]) /\ ~C27_Invalid(xml[2]) /\ ~C27_Invalid(xml[3])
    /\ xml[4].opcode = "MOVE" /\ C27_Tags(xml[4]) = {1, 3}
    /\ halted /\ exit_code = Invalid_XML_structure
    /\ stdout = <<>>
    /\ Stored(argv, "input").values = <<OneLine>> /\ input = NoInput


\* The last instruction was SETCHAR on a slot that exists, with an Int and a
\* String as the machine before it resolves its second and third operand.
C28_Case ==
    /\ LastOp = "SETCHAR"
    /\ C5_IsSlot(before, LastIns.args[1])
    /\ C8_Source(2).err = 0 /\ C8_Source(3).err = 0
    /\ C8_Value(2).type = "int" /\ C8_Value(3).type = "string"
\* t is s with the character at index i replaced by ch.
C28_Replaces(t, s, i, ch) ==
    /\ Len(t) = Len(s)
    /\ \A k \in 1..Len(s) : t[k] = IF k = i + 1 THEN ch ELSE s[k]
C28_Law(d, new, i, c) ==
    IF d.type = "" THEN halted /\ exit_code = Missing_value
    ELSE IF d.type # "string" THEN halted /\ exit_code = Invalid_type
    ELSE IF c = <<>> \/ i < 0 \/ i >= Len(d.value.s)
    THEN halted /\ exit_code = Bad_string_operation /\ global_frame = before.gf
    ELSE /\ ~halted
         /\ new.type = "string" /\ new.value.k = "str"
         /\ C28_Replaces(new.value.s, d.value.s, i, c[1])

\* C28: SETCHAR with an Int index and a String c ends the run with status 56
\* when the destination is uninitialized and with 53 when it holds no
\* String; on a String it ends the run with 58, the destination unchanged,
\* when c is empty or the index is not in 0..len-1, and otherwise leaves a
\* String of the same length that differs from the old one at the index
\* only, where it holds the first character of c.
C28_SetcharReplacesOneCharacter ==
    C28_Case => C28_Law(Deref(before, OperandRef(LastIns.args[1])),
                        Deref(Machine, OperandRef(LastIns.args[1])),
                        C8_Value(2).value.n, C8_Value(3).value.s)
\* SETCHAR put y, the first character of yz, at index 1 of abc.
C28_MiddleReplaced ==
    /\ C28_Case /\ ~halted
    /\ Deref(before, OperandRef(LastIns.args[1])).value.s = <<97, 98, 99>>
    /\ C8_Value(2).value.n = 1 /\ C8_Value(3).value.s = <<121, 122>>
    /\ Deref(Machine, OperandRef(LastIns.args[1])).value.s = <<97, 121, 99>>
\* SETCHAR at index -1 of abc ended the run with status 58.
C28_NegativeIndexRejected ==
    /\ C28_Case /\ halted /\ exit_code = Bad_string_operation
    /\ Deref(before, OperandRef(LastIns.args[1])).value.s = <<97, 98, 99>>
    /\ C8_Value(2).value.n = -1 /\ C8_Value(3).value.s # <<>>


\* The last instruction was STRI2INT or GETCHAR on a slot that exists with a
\* String and an Int as the machine before it resolves them, or STRI2INTS
\* with an Int on top of a String on the data stack before it.
C29_Case ==
    \/ /\ LastOp \in {"STRI2INT", "GETCHAR"}
       /\ C5_IsSlot(before, LastIns.args[1])
       /\ C8_Source(2).err = 0 /\ C8_Source(3).err = 0
       /\ C8_Value(2).type = "string" /\ C8_Value(3).type = "int"
    \/ /\ LastOp = "STRI2INTS" /\ Len(before.ds) >= 2
       /\ before.ds[Len(before.ds) - 1].type = "string"
       /\ before.ds[Len(before.ds)].type = "int"
C29_String ==
    IF LastOp = "STRI2INTS" THEN before.ds[Len(before.ds) - 1].value.s ELSE C8_Value(2).value.s
C29_Index ==
    IF LastOp = "STRI2INTS" THEN before.ds[Len(before.ds)].value.n ELSE C8_Value(3).value.n
\* What the instruction left: the destination, or the top of the data stack.
C29_Result ==
    IF LastOp = "STRI2INTS" THEN data_stack[Len(data_stack)]
    ELSE Deref(Machine, OperandRef(LastIns.args[1]))
C29_Law(s, i) ==
    IF i < 0 \/ i >= Len(s)
    THEN halted /\ exit_code = Bad_string_operation
    ELSE /\ ~halted
         /\ IF LastOp = "GETCHAR"
            THEN C29_Result.type = "string" /\ C29_Result.value = PyStr(<<s[i + 1]>>)
            ELSE C29_Result.type = "int" /\ C29_Result.value = PyInt(s[i + 1])
         /\ LastOp = "STRI2INTS" => Len(data_stack) = Len(before.ds) - 1

\* C29: STRI2INT, STRI2INTS and GETCHAR of a String and an Int end the run
\* with status 58 for every index below 0 and every index from the length
\* up; for an index in 0..len-1 the result is the code point at that
\* position (STRI2INT, STRI2INTS) or the string of that one character
\* (GETCHAR).
C29_IndexWithinString == C29_Case => C29_Law(C29_String, C29_Index)
\* GETCHAR at index -1 of abc ended the run with status 58.
C29_NegativeIndexRejected ==
    /\ C29_Case /\ LastOp = "GETCHAR"
    /\ C29_String = <<97, 98, 99>> /\ C29_Index = -1
    /\ halted /\ exit_code = Bad_string_operation
\* STRI2INTS left 98 for the string written a\098c and the index 1.
C29_EscapedCharacterCounted ==
    /\ C29_Case /\ LastOp = "STRI2INTS" /\ ~halted
    /\ C29_String = <<97, 98, 99>> /\ C29_Index = 1
    /\ C29_Result.value = PyInt(98)


\* The last instruction was TYPE on a destination slot that exists; its
\* second operand is a slot that exists, or a literal of one of the five
\* variants that the machine resolves.
C30_Case == LastOp = "TYPE" /\ C5_IsSlot(before, LastIns.args[1])
C30_OfSlot == C30_Case /\ C5_IsSlot(before, LastIns.args[2])
C30_OfLiteral ==
    /\ C30_Case
    /\ LastIns.args[2].type \in AllTypes
    /\ C8_Source(2).err = 0
\* The destination holds the String txt.
C30_Stored(d, txt) == ~halted /\ d.type = "string" /\ d.value = PyStr(txt)

\* C30: TYPE never ends the run with status 56; it leaves in the destination
\* the String int, string, bool, float or nil for a literal and for an
\* initialized variable of that variant, and the empty String for a
\* variable that is declared and uninitialized.
C30_TypeNamesVariant ==
    /\ LastOp = "TYPE" => ~(halted /\ exit_code = Missing_value)
    /\ C30_OfSlot =>
          C30_Stored(Deref(Machine, OperandRef(LastIns.args[1])),
                     TypeText(Deref(before, OperandRef(LastIns.args[2])).type))
    /\ C30_OfLiteral =>
          C30_Stored(Deref(Machine, OperandRef(LastIns.args[1])),
                     TypeText(LastIns.args[2].type))
\* TYPE GF@d GF@x with GF@x declared and uninitialized left the empty String
\* in GF@d.
C30_UninitializedGivesEmpty ==
    /\ C30_OfSlot /\ ~halted
    /\ LastIns.args[2] # LastIns.args[1]
    /\ C5_Uninitialized(before, LastIns.args[2])
    /\ Deref(Machine, OperandRef(LastIns.args[1])).value = PyStr(<<>>)
\* TYPE of a Float literal left the String float.
C30_FloatNamed ==
    /\ C30_OfLiteral /\ ~halted /\ LastIns.args[2].type = "float"
    /\ Deref(Machine, OperandRef(LastIns.args[1])).value = PyStr(txtFloat)


\* s is the beginning of t.
C31_Prefix(s, t) == Len(s) <= Len(t) /\ SubSeq(t, 1, Len(s)) = s
\* The step was a READ that completed: the first line left of the input is
\* gone and the lines after it are left, in their order; a READ of a string
\* stored that line without its line end.
C31_Consumed ==
    IF input.lines = <<>> THEN input' = input
    ELSE /\ input' = [input EXCEPT !.lines = Tail(input.lines)]
         /\ (LastIns'.args[2] = Arg("type", txtString)
                /\ Strip(Head(input.lines)) \notin {<<>>, txtNil}) =>
               Deref(Machine', OperandRef(LastIns'.args[1])).value =
                   PyStr(ParseString(Strip(Head(input.lines))))
C31_Step ==
    /\ IF LastOp' = "READ"
       THEN IF halted'
            THEN input' = input \/ (input.lines # <<>> /\ input'.lines = Tail(input.lines))
            ELSE C31_Consumed
       ELSE input' = input
    /\ IF LastOp' = "WRITE" /\ ~halted'
       THEN C31_Prefix(stdout, stdout')
       ELSE stdout' = stdout

\* C31: every READ that completes takes the first line left of the input and
\* no other instruction takes any, so the k-th READ gets the k-th line; the
\* standard output only grows, at its end and by a WRITE that completes, and
\* a step that ends the run with an error leaves it as it was.
C31_EffectsInExecutionOrder == [][C31_Step]_vars
\* Two READs took a and b of the lines a, b, c, two WRITEs wrote them and a
\* third wrote !, then the run ended with status 54: c is left unread.
C31_OutputKeptAfterError ==
    /\ LastOp = "WRITE" /\ halted /\ exit_code = Nonexistent_variable
    /\ stdout = <<97, 98, 33>>
    /\ input.lines = <<<<99, 10>>>>


\* C32: a command line on which --source or --input appears more than once
\* ends the run with status 10 before the program is loaded.
C32_Repeated(name) == Cardinality(Occurrences(argv, name)) > 1
C32_RepeatedOptionRejected ==
    (C32_Repeated("source") \/ C32_Repeated("input")) =>
        /\ halted /\ exit_code = Missing_parameter
        /\ xml = <<>> /\ history = <<>>


\* The last instruction was NOTS, INT2CHARS, INT2FLOATS or FLOAT2INTS with
\* an entry of the type it converts on top of the data stack before it (for
\* INT2CHARS, an Int that is a code point).
C33_Accepts(opcode) ==
    CASE opcode = "NOTS" -> "bool"
      [] opcode = "FLOAT2INTS" -> "float"
      [] OTHER -> "int"
C33_Top(ds) == ds[Len(ds)]
C33_Case ==
    /\ LastOp \in {"NOTS", "INT2CHARS", "INT2FLOATS", "FLOAT2INTS"}
    /\ Len(before.ds) >= 1
    /\ C33_Top(before.ds).type = C33_Accepts(LastOp)
    /\ LastOp = "INT2CHARS" =>
          (C33_Top(before.ds).value.n >= 0 /\ C33_Top(before.ds).value.n <= MaxCodePoint)

\* C33: a unary stack instruction on an entry of its type completes, leaves
\* the data stack as deep as it was with every entry below the top as it
\* was, and INT2FLOATS leaves on top the Float of the Int that was there.
C33_UnaryStackKeepsDepth ==
    C33_Case =>
        /\ ~halted
        /\ Len(data_stack) = Len(before.ds)
        /\ SubSeq(data_stack, 1, Len(data_stack) - 1) = SubSeq(before.ds, 1, Len(before.ds) - 1)
        /\ LastOp = "INT2FLOATS" =>
              /\ C33_Top(data_stack).type = "float"
              /\ C33_Top(data_stack).value = PyToFloat(C33_Top(before.ds).value)


\* C34: BREAK completes in every state, with or without variables in the
\* frames: the frames, the data stack and the call stack are as before it
\* and the next instruction is the one that follows it.
C34_BreakChangesNothing ==
    LastOp = "BREAK" =>
        /\ ~halted
        /\ global_frame = before.gf /\ temporary_frame = before.tf /\ frame_stack = before.fs
        /\ data_stack = before.ds /\ call_stack = before.cs
        /\ NextIndex(current) = Last + 1


\* The integer machine: the index of the next instruction for an iterator,
\* the saved indexes for the call stack, the index of a label.
C35_Saved(cs) == [k \in 1..Len(cs) |-> NextIndex(cs[k])]
C35_Target(ins) == labels[ins.args[1].text].index
\* The step of the integer machine from index pc with the saved indexes
\* saved to index to with the saved indexes kept, on instruction ins.
C35_Moves(ins, pc, saved, to, kept) ==
    CASE ins.opcode = "JUMP" -> to = C35_Target(ins) /\ kept = saved
      [] ins.opcode = "CALL" -> to = C35_Target(ins) /\ kept = Append(saved, pc + 1)
      [] ins.opcode = "RETURN" ->
            /\ saved # <<>>
            /\ to = saved[Len(saved)] /\ kept = SubSeq(saved, 1, Len(saved) - 1)
      [] ins.opcode \in RegisterJumps \cup StackJumps ->
            to \in {pc + 1, C35_Target(ins)} /\ kept = saved
      [] OTHER -> to = pc + 1 /\ kept = saved
C35_Step ==
    IF Last' = -1
    THEN NextIndex(current) >= Len(instructions) /\ exit_code' = 0
    ELSE /\ Last' = NextIndex(current)
         /\ NextIndex(current) < Len(instructions)
         /\ ~halted' => C35_Moves(LastIns', NextIndex(current), C35_Saved(call_stack),
                                   NextIndex(current'), C35_Saved(call_stack'))

\* C35: read as the index of its next item, the iterator is an integer
\* cursor and the call stack a stack of saved indexes: every step executes
\* the instruction at the index, a jump sets the index to the label's, CALL
\* saves the index after itself, RETURN restores the index saved last, every
\* other instruction adds 1, and the run ends with status 0 when the index
\* reaches the length of the instruction list.
C35_IteratorIsIndex == [][C35_Step]_vars
\* RETURN resumed an iterator over a slice that had yielded items before
\* the CALL, with another one still saved.
C35_ReturnIntoSlice ==
    /\ LastOp = "RETURN" /\ ~halted
    /\ Len(call_stack) >= 1
    /\ current.start > 0 /\ current.pos > 0

\* The handler of a register instruction, by opcode.
C36_Handler(m, ins) ==
    CASE ins.opcode = "MOVE" -> move(m, ins)
      [] ins.opcode = "ADD" -> add(m, ins)
      [] ins.opcode = "SUB" -> sub(m, ins)
      [] ins.opcode = "MUL" -> mul(m, ins)
      [] ins.opcode = "IDIV" -> idiv(m, ins)
      [] ins.opcode = "DIV" -> div(m, ins)
      [] ins.opcode = "LT" -> lt(m, ins)
      [] ins.opcode = "GT" -> gt(m, ins)
      [] ins.opcode = "EQ" -> eq(m, ins)
      [] ins.opcode = "AND" -> and(m, ins)
      [] ins.opcode = "OR" -> or(m, ins)
      [] ins.opcode = "NOT" -> not(m, ins)
      [] ins.opcode = "INT2CHAR" -> int2char(m, ins)
      [] ins.opcode = "STRI2INT" -> stri2int(m, ins)
      [] ins.opcode = "CONCAT" -> concat(m, ins)
      [] ins.opcode = "STRLEN" -> strlen(m, ins)
      [] ins.opcode = "GETCHAR" -> getchar(m, ins)
      [] ins.opcode = "SETCHAR" -> setchar(m, ins)
      [] ins.opcode = "TYPE" -> type(m, ins)
      [] ins.opcode = "INT2FLOAT" -> int2float(m, ins)
      [] OTHER -> float2int(m, ins)
\* A global slot no program names, holding what the destination held before
\* the instruction started.
C36_Snapshot == nameD \o nameD
C36_Saved(m, d) ==
    [m EXCEPT !.gf = AddSlot(m.gf, C36_Snapshot,
                             Variable(Deref(m, d).value, C36_Snapshot, Deref(m, d).type))]
\* The instruction with every source that names the destination reading the
\* snapshot instead.
C36_Apart(ins) ==
    [ins EXCEPT !.args = [k \in 1..Len(ins.args) |->
        IF k > 1 /\ ins.args[k] = ins.args[1] THEN VarArg(txtGF, C36_Snapshot)
        ELSE ins.args[k]]]
C36_Aliased ==
    /\ LastOp \in RegisterBinary \cup RegisterUnary
    /\ C5_IsSlot(before, LastIns.args[1])
    /\ \E k \in 2..Len(LastIns.args) : LastIns.args[k] = LastIns.args[1]
C36_SameOutcome(d, apart) ==
    /\ halted = apart.halted
    /\ exit_code = apart.code
    /\ ~halted => /\ Deref(Machine, d).type = Deref(apart, d).type
                  /\ Deref(Machine, d).value = Deref(apart, d).value

\* C36: an instruction whose destination is also one of its sources stores
\* the value, or ends the run with the status, that the same instruction
\* gives when those sources are read from a copy of the destination taken
\* before the instruction started.
C36_SourcesReadBeforeDestination ==
    C36_Aliased =>
        C36_SameOutcome(OperandRef(LastIns.args[1]),
                        C36_Handler(C36_Saved(before, OperandRef(LastIns.args[1])),
                                    C36_Apart(LastIns)))

\* The instructions that assign to the slot their first operand names.
C37_Assigning == RegisterBinary \cup RegisterUnary \cup {"POPS", "READ"}
C37_FrameKept(tag, old, new, d) ==
    /\ DOMAIN new = DOMAIN old
    /\ \A n \in DOMAIN old : Ref(tag, n) # d => new[n] = old[n]
\* Every slot of every frame but d is what it was before the instruction,
\* and no frame or slot was created or removed.
C37_OthersKept(d) ==
    /\ C37_FrameKept(txtGF, before.gf, global_frame, d)
    /\ temporary_frame.present = before.tf.present
    /\ C37_FrameKept(txtTF, before.tf.frame, temporary_frame.frame, d)
    /\ Len(frame_stack) = Len(before.fs)
    /\ \A i \in 1..Len(before.fs) :
          C37_FrameKept(IF i = Len(before.fs) THEN txtLF ELSE <<>>,
                        before.fs[i], frame_stack[i], d)
C37_Received(slot, s) ==
    /\ slot.type = s.type
    /\ slot.value = s.value

\* C37: a MOVE that succeeds gives its destination slot the type and value
\* of its source and leaves every other slot of every frame, the data stack,
\* the call stack and the frame stack as they were; every other assigning
\* instruction that succeeds changes no slot but its own destination, and
\* none but POPS changes the data stack, so a slot that received a variable's
\* value and a stack entry pushed from it keep it when the variable is
\* assigned again.
C37_MoveCopies ==
    /\ (LastOp = "MOVE" /\ ~halted) =>
          /\ C37_Received(Deref(Machine, OperandRef(LastIns.args[1])), C8_Value(2))
          /\ C37_OthersKept(OperandRef(LastIns.args[1]))
          /\ data_stack = before.ds
          /\ call_stack = before.cs
    /\ (LastOp \in C37_Assigning /\ ~halted) =>
          /\ C37_OthersKept(OperandRef(LastIns.args[1]))
          /\ LastOp # "POPS" => data_stack = before.ds
\* GF@x was pushed and moved to GF@y and has just been assigned a value of
\* another type: GF@y and the stack entry still hold the first one.
C37_SourceAssignedAgain ==
    /\ LastOp = "MOVE" /\ ~halted
    /\ LastIns.args[1] = GFx
    /\ nameY \in DOMAIN global_frame
    /\ global_frame[nameY].type # ""
    /\ global_frame[nameY].type # global_frame[nameX].type
    /\ Len(data_stack) = 1
    /\ data_stack[1].type = global_frame[nameY].type

\* The frames of a machine: the global frame, the frame stack from the
\* bottom, and the temporary frame when there is one.  PUSHFRAME keeps every
\* frame at its place in this list and POPFRAME drops the last one.
C38_Frames(m) == <<m.gf>> \o m.fs \o (IF m.tf.present THEN <<m.tf.frame>> ELSE <<>>)
\* The Python type of the value a Variable of each type holds.
C38_KindOf(t) ==
    CASE t = "int" -> "int" [] t = "bool" -> "bool" [] t = "float" -> "float" [] OTHER -> "str"
C38_Variant(v, ended) == v.type \in AllTypes /\ (~ended => v.value.k = C38_KindOf(v.type))
C38_Tags(m, frames) ==
    /\ \A i \in 1..Len(m.ds) : C38_Variant(m.ds[i], m.halted)
    /\ \A i \in 1..Len(frames) : \A n \in DOMAIN frames[i] :
          frames[i][n].type # "" => C38_Variant(frames[i][n], m.halted)
\* Slot n of a frame in the step from old to new: a slot that held a value
\* still holds one, and a slot that changed holds one.
C38_SlotStep(old, new) ==
    /\ old.type # "" => new.type # ""
    /\ new # old => new.type # ""
C38_FramesStep(old, new) ==
    \A i \in 1..Len(old) : i <= Len(new) =>
        \A n \in DOMAIN old[i] : n \in DOMAIN new[i] => C38_SlotStep(old[i][n], new[i][n])
\* A slot that is new in the step has the empty tag.
C38_Created(old, new) ==
    \A i \in 1..Len(new) : \A n \in DOMAIN new[i] :
        (i > Len(old) \/ n \notin DOMAIN old[i]) => new[i][n].type = ""
C38_Step ==
    /\ C38_Tags(Machine', C38_Frames(Machine'))
    /\ C38_FramesStep(C38_Frames(Machine), C38_Frames(Machine'))
    /\ C38_Created(C38_Frames(Machine), C38_Frames(Machine'))

\* C38: every entry of the data stack and every slot whose type tag is not
\* empty has one of the types nil, bool, int, float and string, and, while
\* the run has not ended, a value of that type; a slot created by DEFVAR has
\* the empty tag, keeps it until a step changes the slot, and a slot with a
\* non-empty tag never gets the empty tag again.
C38_ValuesHaveVariants ==
    /\ C38_Tags(Machine, C38_Frames(Machine))
    /\ [][C38_Step]_vars

\* GF@y has just been defined while GF@x, pushed with another type, holds
\* Nil and the data stack holds the entry.
C38_DefinedBesideInitialized ==
    /\ LastOp = "DEFVAR" /\ ~halted
    /\ nameX \in DOMAIN global_frame /\ nameY \in DOMAIN global_frame
    /\ global_frame[nameY].type = ""
    /\ global_frame[nameX].type = "nil"
    /\ Len(data_stack) = 1
    /\ data_stack[1].type # "nil"

\* Operand a is an int literal whose text is no int: abc or 1.5.
C39_Malformed(a) == a.type = "int" /\ a.text \in {b.text : b \in BadInts}
C39_InDocument ==
    \E i \in 1..Len(xml) : \E j \in 1..Len(xml[i].args) : C39_Malformed(xml[i].args[j])
\* The last instruction executed reads a malformed int literal: as the
\* operand of WRITE, PUSHS or EXIT, or as the source of a MOVE whose
\* destination exists.
C39_Reached ==
    \/ LastOp \in {"WRITE", "PUSHS", "EXIT"} /\ C39_Malformed(LastIns.args[1])
    \/ /\ LastOp = "MOVE"
       /\ C5_IsSlot(before, LastIns.args[1])
       /\ C39_Malformed(LastIns.args[2])

\* C39: a document holding a malformed int literal is loaded like any other
\* (nothing but the command line, the structure of the document and its
\* labels ends the run before the first instruction); the run ends with
\* status 32 when an instruction that reads the literal is executed, with the
\* output of the instructions executed before it and nothing more.
C39_LiteralCheckedWhenExecuted ==
    /\ (history = <<>> /\ halted /\ exit_code = Invalid_XML_structure) =>
          (BadXml(xml) \/ \E i \in 1..Len(xml) : BadOrder(xml[i]))
    /\ C39_Reached =>
          /\ halted /\ exit_code = Invalid_XML_structure
          /\ stdout = before.out
          /\ data_stack = before.ds /\ global_frame = before.gf
\* A run that jumped over the instruction with the malformed literal has
\* ended with status 0 and both WRITEs' output.
C39_SkippedLiteralHarmless ==
    /\ C39_InDocument
    /\ halted /\ exit_code = 0 /\ Last = -1
    /\ stdout = <<97, 97>>

============================================================================
